---- MODULE Spec2Model ----
(***************************************************************************)
(* Admin backend of the ShreeAdvaya site: the batch commit handler and the *)
(* content handler of api/data.js, the account store of api/auth/users.js  *)
(* and the account-management handlers, over a model of the Git provider   *)
(* (commits, trees, one branch reference).                                 *)
(***************************************************************************)
EXTENDS Integers, Sequences, FiniteSets, TLC

\* ------------------------------------------------------------------ bounds
\* Largest total number of change entries the requests of one behaviour carry,
\* all requests together: the create/update/delete entries and content documents
\* of the batch bodies, and the content PUTs.
MaxOps == 2
\* Largest number of commit objects the provider stores (the initial one included).
MaxCommits == 2
\* Largest clock value (Date.now()); the clock starts at 0.
MaxTime == 1

\* ------------------------------------------------------- program constants
\* jwt.sign(..., { expiresIn: '1h' }), in seconds.
TokenTTL == 3600
\* Date.now() counts milliseconds, jwt counts seconds.
MsPerSec == 1000

PRODUCTS == "data/products.json"
GALLERY == "data/gallery.json"
HERO == "data/hero.json"
CONTENT == "data/content.json"
USERS == "data/users.json"
\* A file of the repository no handler writes.
INDEX_HTML == "index.html"

Collections == {"products", "gallery", "hero"}

PathOf(c) ==
    CASE c = "products" -> PRODUCTS
      [] c = "gallery" -> GALLERY
      [] c = "hero" -> HERO
      [] c = "content" -> CONTENT
      [] c = "users" -> USERS

\* ------------------------------------------------------------ JS helpers
\* { ...a, ...b }: the fields of b overlay those of a.
Spread(a, b) ==
    [k \in (DOMAIN a) \cup (DOMAIN b) |-> IF k \in DOMAIN b THEN b[k] ELSE a[k]]

\* An object without fields: what an absent optional part of a body, or a
\* response without data, spreads to.
Absent == [k \in {} |-> ""]

\* arr.findIndex(x => x.id === id), 0 standing for -1 (sequences start at 1).
FindIndexById(arr, id) ==
    IF \E i \in 1..Len(arr) : arr[i].id = id
    THEN CHOOSE i \in 1..Len(arr) :
            arr[i].id = id /\ \A j \in 1..(i - 1) : arr[j].id # id
    ELSE 0

\* The ids with the client's placeholder prefix that requests carry.
TempIds == {"temp_1"}

\* id.startsWith('temp_'): server ids begin with a digit, stored ids with a letter
\* other than t, so the placeholder ids are exactly those of TempIds.
StartsWithTemp(id) == id \in TempIds

RECURSIVE FilterSeq(_, _)
\* arr.filter(x => x \in keep), order kept.
FilterSeq(arr, keep) ==
    IF arr = <<>> THEN <<>>
    ELSE IF Head(arr) \in keep
         THEN <<Head(arr)>> \o FilterSeq(Tail(arr), keep)
         ELSE FilterSeq(Tail(arr), keep)

Range(s) == {s[i] : i \in 1..Len(s)}

\* Math.random().toString(36).substr(2, 9): the suffixes a run can draw.
RandomSuffixes == {"a", "b"}

VARIABLES
    now,            \* Date.now()
    env,            \* process.env: GITHUB_TOKEN, ADMIN_PASSWORD, ADMIN_USERS
    commits,        \* the provider's commit objects: <<[parent, tree]>>, tree: path -> data
    tip,            \* the branch reference: an index into commits
    pc,             \* where the request handler stands
    req,            \* the request being handled: [token, body, ...]
    snap,           \* handleBatch: path -> the snapshot getFileFromGitHub returned
    loadFailed,     \* handleBatch: the paths whose load failed other than by a 404
    filesToUpdate,  \* handleBatch: path -> new file data
    results,        \* handleBatch: the collections reported in results
    currentCommit,  \* handleBatch: what getCurrentCommit returned
    newTree,        \* handleBatch: the tree createTree returned
    newCommit,      \* handleBatch: the commit createCommit returned (0: none)
    calls,          \* the provider calls of the current request, in order
    resp,           \* the response sent: [status, ...]
    opsUsed,        \* the change entries the requests carried so far
    users,          \* the account list a handler loaded (loadUsers) and works on
    localStorage,   \* the admin page: window.localStorage, key -> value
    frames,         \* the admin page: the invocations of apiCall that await, innermost last
    thrown,         \* the admin page: the error an invocation of apiCall threw
    settled,        \* the admin page: how the top-level apiCall stands
    fetches,        \* the admin page: the HTTP requests the top-level apiCall issued
    delay,          \* the admin page: the last backoff delay apiCall waited, in ms
    loginShown,     \* the admin page: the login screen is displayed
    notifications,  \* the admin page: the messages showNotification displayed
    pendingChanges  \* the admin page: the changes queued for the next batch

vars == <<now, env, commits, tip, pc, req, snap, loadFailed, filesToUpdate, results,
          currentCommit, newTree, newCommit, calls, resp, opsUsed, users,
          localStorage, frames, thrown, settled, fetches, delay, loginShown, notifications,
          pendingChanges>>

browser == <<localStorage, frames, thrown, settled, fetches, delay, loginShown, notifications,
             pendingChanges>>

locals == <<snap, loadFailed, filesToUpdate, results, currentCommit, newTree, newCommit>>

\* ------------------------------------------------------------ token service
NoSecret == ""
Roles == {"admin", "editor", "viewer"}

\* Math.floor(Date.now() / 1000)
NowSec(t) == t \div MsPerSec

\* jwt.js generateToken: HS256 over {username, role, iat}, expiresIn '1h'.
generateToken(user, secret, t) ==
    [form |-> "jwt", username |-> user.username, role |-> user.role,
     iat |-> NowSec(t), exp |-> NowSec(t) + TokenTTL, sig |-> secret]

\* A verification that also looks the account up in the stored list and
\* refuses the token of an account that is gone or whose role was changed.
verifyToken_Revocable(token, secret, t) ==
    LET stored == IF "data/users.json" \in DOMAIN commits[tip].tree
                  THEN commits[tip].tree["data/users.json"] ELSE <<>>
    IN  IF secret = "" \/ token.form # "jwt" \/ token.sig # secret
        THEN [valid |-> FALSE, error |-> "Invalid token"]
        ELSE IF t \div 1000 >= token.exp
        THEN [valid |-> FALSE, error |-> "Token expired"]
        ELSE IF \A i \in 1..Len(stored) :
                   stored[i].username # token.username \/ stored[i].role # token.role
        THEN [valid |-> FALSE, error |-> "Invalid token"]
        ELSE [valid |-> TRUE, user |-> [username |-> token.username, role |-> token.role]]

verifyToken_NoExpiry(token, secret, t) ==
    IF secret = NoSecret
    THEN [valid |-> FALSE, error |-> "Token verification failed"]
    ELSE IF token.form # "jwt" \/ token.sig # secret
    THEN [valid |-> FALSE, error |-> "Invalid token"]
    ELSE [valid |-> TRUE, user |-> [username |-> token.username, role |-> token.role]]

\* jwt.js verifyToken: getJWTSecret throws without ADMIN_PASSWORD (a plain Error),
\* jwt.verify rejects a malformed or wrongly signed token (JsonWebTokenError)
\* and then an expired one (TokenExpiredError: clock >= exp).
verifyToken(token, secret, t) ==
    IF secret = NoSecret
    THEN [valid |-> FALSE, error |-> "Token verification failed"]
    ELSE IF token.form # "jwt" \/ token.sig # secret
    THEN [valid |-> FALSE, error |-> "Invalid token"]
    ELSE IF NowSec(t) >= token.exp
    THEN [valid |-> FALSE, error |-> "Token expired"]
    ELSE [valid |-> TRUE, user |-> [username |-> token.username, role |-> token.role]]

\* The Authorization headers a request can carry: none, a malformed token, a token
\* signed with another secret, and tokens the service issued in the last hour or
\* exactly an hour ago, for each role.
Secret == "s3cret"
AbsentToken ==
    [form |-> "absent", username |-> "", role |-> "", iat |-> 0, exp |-> 0, sig |-> ""]
IssuedTokens(accounts, secret, t) ==
    {generateToken(u, secret, t0) :
        u \in accounts, t0 \in {t - TokenTTL * MsPerSec, t - (TokenTTL - 1) * MsPerSec}}
RequestTokens(accounts, t) ==
    {AbsentToken, [AbsentToken EXCEPT !.form = "malformed"]}
        \cup IssuedTokens({[username |-> "Admin", role |-> "admin"]}, "forged", t)
        \cup IssuedTokens(accounts, Secret, t)

\* The sessions of the batch and content requests: one account of each role, the
\* admin one also with an expired token.
SessionUsers ==
    {[username |-> "Admin", role |-> "admin"],
     [username |-> "bob", role |-> "editor"],
     [username |-> "vera", role |-> "viewer"]}
DataTokens(t) ==
    {tk \in RequestTokens(SessionUsers, t) :
        verifyToken(tk, Secret, t).valid \/ tk.role \in {"", "admin"}}

\* --------------------------------------------------------- credentials
\* A stored credential string. "aes": iv:authTag:ciphertext as encryptPassword
\* writes it, AES-256-GCM under the key derived from `key`, tag telling whether
\* the authentication tag is the one written (the random iv is left out).
\* "text": a string that is not of that shape (a legacy plain text password).
Cipher(key, text, tag) == [form |-> "aes", key |-> key, text |-> text, tag |-> tag]
StoredText(text) == [form |-> "text", key |-> "", text |-> text, tag |-> TRUE]

\* users.js encryptPassword under ADMIN_PASSWORD = key.
encryptPassword(password, key) == Cipher(key, password, TRUE)

\* What decryptPassword returns for a failure (null).
DecryptFailed == [ok |-> FALSE, text |-> ""]

\* Decryption that hands back the stored text whatever the key and the tag.
decryptPassword_Unchecked(stored, key) == [ok |-> TRUE, text |-> stored.text]

\* users.js decryptPassword under ADMIN_PASSWORD = key: null when the key is
\* unset, when the string does not split into three parts, and when GCM rejects
\* the key or the tag.
decryptPassword(stored, key) ==
    IF key = NoSecret \/ stored.form # "aes" \/ stored.key # key \/ ~stored.tag
    THEN DecryptFailed
    ELSE [ok |-> TRUE, text |-> stored.text]

\* ------------------------------------------------------------ the provider
TipTree == commits[tip].tree


\* A provider that builds the tree from the posted entries alone.
ProviderTree_EntriesOnly(baseTree, entries) == entries

\* What the provider's tree creation stores: base_tree overlaid with the entries.
ProviderTree(baseTree, entries) == Spread(baseTree, entries)

\* The commit the contents API (PUT /contents/path) makes on the branch.
ContentsPut(path, data) ==
    /\ commits' = Append(commits, [parent |-> tip, tree |-> Spread(TipTree, [p \in {path} |-> data])])
    /\ tip' = Len(commits) + 1

\* data.js getFileFromGitHub: the parsed file; [] or {} on a 404 and, through the
\* catch, on every other failure (error status, network error, unparsable body).
getFileFromGitHub(tree, path, fetchOk) ==
    IF fetchOk /\ path \in DOMAIN tree THEN tree[path] ELSE <<>>

\* --------------------------------------------------- collection mutators
\* body.<c>.update.forEach: a patch overlays the item with its id and stamps
\* updatedAt; a patch whose id is not in the collection changes nothing.
RECURSIVE ApplyUpdates(_, _, _)
ApplyUpdates(arr, updates, t) ==
    IF updates = <<>> THEN arr
    ELSE LET update == Head(updates)
             index == FindIndexById(arr, update.id)
         IN ApplyUpdates(
                IF index # 0
                THEN [arr EXCEPT ![index] = Spread(Spread(@, update), [updatedAt |-> t])]
                ELSE arr,
                Tail(updates), t)

\* { id: <generated>, ...item, createdAt: now }
NewItem(id, item, t) == Spread(Spread([id |-> id], item), [createdAt |-> t])

\* body.<c>.create.forEach: one item pushed per entry, ids[i] being the id
\* generated for the i-th entry.
RECURSIVE ApplyCreates(_, _, _, _)
ApplyCreates(arr, creates, ids, t) ==
    IF creates = <<>> THEN arr
    ELSE ApplyCreates(Append(arr, NewItem(Head(ids), Head(creates), t)),
                      Tail(creates), Tail(ids), t)

\* The ids one create loop can generate for n entries at clock t:
\* products and gallery Date.now().toString() + a random suffix per entry,
\* hero (Date.now() + counter++).toString().
GeneratedIds(c, n, t) ==
    IF c = "hero"
    THEN {[i \in 1..n |-> ToString(t + (i - 1))]}
    ELSE {[i \in 1..n |-> ToString(t) \o r[i]] : r \in [1..n -> RandomSuffixes]}

\* The right-hand side of the deletion: deleteIds drops the placeholder ids, the
\* filter drops the items whose id is in deleteIds.
ApplyDeletes(arr, deletes) ==
    LET deleteIds == {id \in Range(deletes) : ~StartsWithTemp(id)}
    IN FilterSeq(arr, {x \in Range(arr) : x.id \notin deleteIds})

\* The deletion assigns its result to the collection variable, which is declared
\* const: the assignment throws a TypeError whenever it is executed.
ConstAssignmentThrows == TRUE

\* hasChanges: some list of the change-set is non-empty.
HasChanges(cs) == Len(cs.create) > 0 \/ Len(cs.update) > 0 \/ Len(cs.delete) > 0

\* ------------------------------------------------------- request universe
EmptyChangeSet == [update |-> <<>>, create |-> <<>>, delete |-> <<>>]

ExistingId(c) ==
    CASE c = "products" -> "p1" [] c = "gallery" -> "g1" [] c = "hero" -> "h1"

\* One entry of a batch body, <<collection, list, entry>>: per collection an
\* update of a stored id and of an unknown one, a create, a delete of a stored id
\* and of a placeholder id; the content document; the entries of a users change-set.
BatchEntries ==
    UNION {
        {<<c, "update", [id |-> ExistingId(c), name |-> "renamed"]>>,
         <<c, "update", [id |-> "ghost", name |-> "renamed"]>>,
         <<c, "create", [name |-> "fresh"]>>,
         <<c, "delete", ExistingId(c)>>,
         <<c, "delete", "temp_1">>} : c \in Collections}
    \cup {<<"content", "update", [title |-> "new title"]>>,
          <<"users", "create", [username |-> "carol", password |-> "carol-pw", role |-> "editor"]>>,
          <<"users", "update", [username |-> "bob", role |-> "viewer"]>>,
          <<"users", "delete", "bob">>}

\* The body with one more entry: appended to its list, the content document set.
AddEntry(body, e) ==
    IF e[1] = "content"
    THEN Spread(body, [c \in {"content"} |-> [update |-> e[3]]])
    ELSE LET cs == IF e[1] \in DOMAIN body THEN body[e[1]] ELSE EmptyChangeSet
         IN Spread(body, [c \in {e[1]} |-> [cs EXCEPT ![e[2]] = Append(@, e[3])]])

RECURSIVE BodiesUpTo(_)
\* The batch bodies built from at most n entries.
BodiesUpTo(n) ==
    IF n = 0 THEN {<<>>}
    ELSE LET smaller == BodiesUpTo(n - 1)
         IN smaller \cup {AddEntry(b, e) : b \in smaller, e \in BatchEntries}

\* The number of entries of a batch body.
BodySize(body) ==
    LET n(c) == IF c \in DOMAIN body
                THEN Len(body[c].update) + Len(body[c].create) + Len(body[c].delete)
                ELSE 0
    IN n("products") + n("gallery") + n("hero") + n("users")
       + (IF "content" \in DOMAIN body THEN 1 ELSE 0)

NoRequest == [endpoint |-> "none", method |-> "", token |-> AbsentToken, body |-> <<>>]
NoResponse == [status |-> 0, text |-> "", commitSha |-> 0, data |-> Absent]

\* res.status(status).json({ error | message: text, ...data })
ReplyData(status, text, data) ==
    [status |-> status, text |-> text, commitSha |-> 0, data |-> data]
Reply(status, text) == ReplyData(status, text, Absent)

\* ------------------------------------------------------------------ Init
Item(id, name) == [id |-> id, name |-> name, createdAt |-> 0]

StoredUsers ==
    <<[username |-> "Admin", encryptedPassword |-> Cipher(Secret, Secret, TRUE), role |-> "admin",
       email |-> "admin@shreeadvaya.com", createdAt |-> 0, isDefault |-> TRUE],
      [username |-> "asha", encryptedPassword |-> Cipher(Secret, "asha-pw", TRUE), role |-> "admin",
       email |-> "asha@shreeadvaya.com", createdAt |-> 0],
      [username |-> "bob", encryptedPassword |-> Cipher(Secret, "bob-pw1", TRUE), role |-> "editor",
       email |-> "bob@shreeadvaya.com", createdAt |-> 0]>>

\* The repository as deployed: the products, gallery, content and users files
\* and the site's page; data/hero.json was never created.
InitTree ==
    [p \in {PRODUCTS, GALLERY, CONTENT, USERS, INDEX_HTML} |->
        CASE p = PRODUCTS -> <<Item("p1", "saree"), Item("p2", "dupatta")>>
          [] p = GALLERY -> <<Item("g1", "loom")>>
          [] p = CONTENT -> [title |-> "old title", about |-> "weavers"]
          [] p = USERS -> StoredUsers
          [] p = INDEX_HTML -> "<html>"]

\* ------------------------------------------------- the admin page: apiCall
STORAGE_KEY == "admin_token"
MAX_RETRIES == 3
RETRY_DELAY == 1000

RECURSIVE pow(_, _)
pow(b, n) == IF n = 0 THEN 1 ELSE b * pow(b, n - 1)

\* localStorage.removeItem(key).
removeItem(storage, key) == [k \in (DOMAIN storage) \ {key} |-> storage[k]]

NoError == [name |-> "", message |-> ""]
NotAuthenticated == [name |-> "Error", message |-> "Not authenticated"]
SessionExpired == [name |-> "Error", message |-> "Session expired. Please login again."]
FailedToFetch == [name |-> "TypeError", message |-> "Failed to fetch"]
InvalidJSON == [name |-> "Error", message |-> "Invalid JSON response from server"]
ServerError == [name |-> "Error", message |-> "Server error"]
RequestFailed == [name |-> "Error", message |-> "API request failed"]

\* A retry test that takes every error for a failed fetch.
includesFetch_Any(message) == message # ""

\* error.message.includes('fetch'), over the messages above.
includesFetch(message) == message = FailedToFetch.message

\* What one fetch can bring: no response at all, or a status with a body that
\* is JSON, is declared JSON and does not parse, or is no JSON.
Responses ==
    {[status |-> 0, body |-> "none"]}
        \cup {[status |-> st, body |-> b] :
                st \in {200, 400, 401, 500}, b \in {"json", "malformed", "other"}}

\* const pendingChanges = {...}: every queue empty, no content update.
EmptyQueues == [create |-> <<>>, update |-> <<>>, delete |-> <<>>]
NoChanges ==
    [products |-> EmptyQueues, gallery |-> EmptyQueues, hero |-> EmptyQueues,
     content |-> [update |-> Absent], users |-> EmptyQueues]

InitBrowser ==
    /\ pendingChanges = NoChanges
    /\ localStorage = Absent
    /\ frames = <<>>
    /\ thrown = NoError
    /\ settled = "none"
    /\ fetches = 0
    /\ delay = 0
    /\ loginShown = FALSE
    /\ notifications = {}

InitLocals ==
    /\ snap = <<>>
    /\ loadFailed = {}
    /\ filesToUpdate = <<>>
    /\ results = {}
    /\ currentCommit = [sha |-> 0, treeSha |-> 0, branch |-> ""]
    /\ newTree = <<>>
    /\ newCommit = 0

Init ==
    /\ now = 0
    /\ env \in {[GITHUB_TOKEN |-> g, ADMIN_PASSWORD |-> s, ADMIN_USERS |-> <<>>] :
                  g \in BOOLEAN, s \in {Secret, NoSecret}}
    /\ commits = <<[parent |-> 0, tree |-> InitTree]>>
    /\ tip = 1
    /\ pc = "idle"
    /\ req = NoRequest
    /\ InitLocals
    /\ calls = <<>>
    /\ resp = NoResponse
    /\ opsUsed = 0
    /\ users = <<>>
    /\ InitBrowser

\* ------------------------------------------------------------ handleBatch
ResetLocals ==
    /\ snap' = <<>>
    /\ loadFailed' = {}
    /\ filesToUpdate' = <<>>
    /\ results' = {}
    /\ currentCommit' = [sha |-> 0, treeSha |-> 0, branch |-> ""]
    /\ newTree' = <<>>
    /\ newCommit' = 0

\* catch (error) { return res.status(500).json({ error: error.message }) }
Throw(message) ==
    /\ pc' = "done"
    /\ resp' = Reply(500, message)

\* The guard of handleBatch, in the order of the code: the bearer token, its
\* verification, then the provider configuration.
BatchGuard(token, secret, githubToken, t) ==
    IF token.form = "absent" THEN Reply(401, "Unauthorized. Please login.")
    ELSE IF ~verifyToken(token, secret, t).valid
    THEN Reply(401, "Unauthorized. Invalid or expired token.")
    ELSE IF ~githubToken THEN Reply(500, "GitHub token not configured")
    ELSE NoResponse

\* A batch request arrives; the handler runs to its first provider call. body is
\* the handler's variable: {} until the guard has passed and the body is parsed.
HandleBatchEntry ==
    /\ pc = "idle"
    /\ Len(commits) < MaxCommits
    /\ \E token \in DataTokens(now), body \in BodiesUpTo(MaxOps - opsUsed) :
        LET guard == BatchGuard(token, env.ADMIN_PASSWORD, env.GITHUB_TOKEN, now)
            parsed == IF token.form = "absent" \/ ~verifyToken(token, env.ADMIN_PASSWORD, now).valid
                      THEN <<>> ELSE body
        IN /\ req' = [endpoint |-> "batch", method |-> "POST", token |-> token, body |-> parsed]
           /\ opsUsed' = opsUsed + BodySize(parsed)
           /\ IF guard # NoResponse
              THEN pc' = "done" /\ resp' = guard
              ELSE pc' = "products" /\ resp' = NoResponse
    /\ UNCHANGED <<users, now, env, browser, commits, tip, locals, calls>>

\* The block of handleBatch for one collection: load, updates, creates, deletes,
\* hasChanges.
ProcessCollection(c, nextPc) ==
    IF c \notin DOMAIN req.body
    THEN /\ pc' = nextPc
         /\ UNCHANGED <<snap, loadFailed, filesToUpdate, results, calls, resp>>
    ELSE LET cs == req.body[c]
             path == PathOf(c)
         IN \E fetchOk \in BOOLEAN, ids \in GeneratedIds(c, Len(cs.create), now) :
             LET loaded == getFileFromGitHub(TipTree, path, fetchOk)
                 created == ApplyCreates(ApplyUpdates(loaded, cs.update, now),
                                         cs.create, ids, now)
             IN /\ calls' = Append(calls, "getFileFromGitHub")
                /\ snap' = Spread(snap, [p \in {path} |-> loaded])
                /\ loadFailed' = IF fetchOk THEN loadFailed ELSE loadFailed \cup {path}
                /\ IF Len(cs.delete) > 0 /\ ConstAssignmentThrows
                   THEN /\ Throw("Assignment to constant variable.")
                        /\ UNCHANGED <<filesToUpdate, results>>
                   ELSE LET final == IF Len(cs.delete) > 0
                                     THEN ApplyDeletes(created, cs.delete)
                                     ELSE created
                        IN /\ pc' = nextPc
                           /\ resp' = resp
                           /\ IF HasChanges(cs)
                              THEN /\ filesToUpdate' = Spread(filesToUpdate, [p \in {path} |-> final])
                                   /\ results' = results \cup {c}
                              ELSE UNCHANGED <<filesToUpdate, results>>

ProcessProducts ==
    /\ pc = "products"
    /\ ProcessCollection("products", "gallery")
    /\ UNCHANGED <<users, now, env, browser, commits, tip, req, currentCommit, newTree, newCommit, opsUsed>>

ProcessGallery ==
    /\ pc = "gallery"
    /\ ProcessCollection("gallery", "hero")
    /\ UNCHANGED <<users, now, env, browser, commits, tip, req, currentCommit, newTree, newCommit, opsUsed>>

ProcessHero ==
    /\ pc = "hero"
    /\ ProcessCollection("hero", "content")
    /\ UNCHANGED <<users, now, env, browser, commits, tip, req, currentCommit, newTree, newCommit, opsUsed>>

\* A content file that is the update laid over the stored document.
contentFile_Overlay(stored, update) == Spread(stored, update)

\* The content file a batch writes: body.content.update as it came; the stored
\* document is not read.
contentFile(stored, update) == update

\* body.content.update becomes the whole new content file; with nothing to
\* update the handler answers 'No changes to save'.
ProcessContent ==
    /\ pc = "content"
    /\ LET stored == IF CONTENT \in DOMAIN TipTree THEN TipTree[CONTENT] ELSE Absent
           files == IF "content" \in DOMAIN req.body
                    THEN Spread(filesToUpdate,
                                [p \in {CONTENT} |-> contentFile(stored, req.body.content.update)])
                    ELSE filesToUpdate
       IN /\ filesToUpdate' = files
          /\ results' = IF "content" \in DOMAIN req.body THEN results \cup {"content"} ELSE results
          /\ IF DOMAIN files = {}
             THEN pc' = "done" /\ resp' = Reply(200, "No changes to save")
             ELSE pc' = "getCurrentCommit" /\ resp' = resp
    /\ UNCHANGED <<users, now, env, browser, commits, tip, req, snap, loadFailed, currentCommit,
                   newTree, newCommit, calls, opsUsed>>

\* The branches of the provider's repository, and what its information gives
\* as default_branch ("": the information could not be read or names none).
Branches == {"main", "master", "develop"}
DefaultBranches == Branches \cup {""}

\* getCurrentCommit: the default branch's reference (main when the repository's
\* information gives none), master's when that branch is main and its reference
\* cannot be read, then the commit. tried: the references requested, in order.
getCurrentCommit(defaultBranch, readable, commitOk) ==
    LET branch == IF defaultBranch = "" THEN "main" ELSE defaultBranch
    IN  IF branch \in readable
        THEN IF commitOk
             THEN [ok |-> TRUE, branch |-> branch, tried |-> <<branch>>, error |-> ""]
             ELSE [ok |-> FALSE, branch |-> "", tried |-> <<branch>>,
                   error |-> "Failed to get current commit"]
        ELSE IF branch = "main" /\ "master" \in readable /\ commitOk
        THEN [ok |-> TRUE, branch |-> "master", tried |-> <<"main", "master">>, error |-> ""]
        ELSE [ok |-> FALSE, branch |-> "",
              tried |-> IF branch = "main" THEN <<"main", "master">> ELSE <<branch>>,
              error |-> "Failed to get current commit reference"]

\* The request for a branch's reference, as calls records it.
RefRequest(method, branch) == method \o " refs/heads/" \o branch

\* handleBatch calls getCurrentCommit; a failure is thrown to the catch block.
\* defaults: what the repository's information can give; heads: its branches.
ResolveCommit(defaults, heads) ==
    /\ \E defaultBranch \in defaults, readable \in SUBSET heads, commitOk \in BOOLEAN :
        LET r == getCurrentCommit(defaultBranch, readable, commitOk)
        IN  /\ calls' = calls \o <<"getCurrentCommit">>
                          \o [i \in 1..Len(r.tried) |-> RefRequest("GET", r.tried[i])]
            /\ IF r.ok
               THEN /\ currentCommit' = [sha |-> tip, treeSha |-> tip, branch |-> r.branch]
                    /\ pc' = "createTree"
                    /\ resp' = resp
               ELSE /\ Throw(r.error)
                    /\ UNCHANGED currentCommit
    /\ UNCHANGED <<users, now, env, browser, commits, tip, req, snap, loadFailed, filesToUpdate,
                   results, newTree, newCommit, opsUsed>>

\* The step on the deployed repository, whose one branch is main.
GetCurrentCommit ==
    /\ pc = "getCurrentCommit"
    /\ ResolveCommit({"main", ""}, {"main"})

\* The step on a repository with any of the branches and any default.
GetCurrentCommitAnyRepo ==
    /\ pc = "getCurrentCommit"
    /\ ResolveCommit(DefaultBranches, Branches)

\* An entry list that carries the base tree only.
TreeEntries_BaseOnly(baseOk, baseTree, files) ==
    IF baseOk THEN baseTree ELSE <<>>

\* createTree's entry list: every blob of the base tree whose path is not being
\* replaced (none when the base tree could not be read), then one new blob per file.
TreeEntries(baseOk, baseTree, files) ==
    Spread(IF baseOk
           THEN [p \in (DOMAIN baseTree) \ (DOMAIN files) |-> baseTree[p]]
           ELSE <<>>,
           files)

\* createTree: read the base tree, create the blobs one by one, post the tree.
\* blobsOk is the number of blobs the provider accepted.
CreateTree ==
    /\ pc = "createTree"
    /\ LET n == Cardinality(DOMAIN filesToUpdate)
           baseTree == commits[currentCommit.treeSha].tree
           blobCalls(k) == [i \in 1..k |-> "createBlob"]
       IN \E baseOk \in BOOLEAN, blobsOk \in 0..n, treeOk \in BOOLEAN :
            IF blobsOk < n
            THEN /\ calls' = calls \o <<"getBaseTree">> \o blobCalls(blobsOk + 1)
                 /\ Throw("Failed to create blob")
                 /\ UNCHANGED newTree
            ELSE IF ~treeOk
            THEN /\ calls' = calls \o <<"getBaseTree">> \o blobCalls(n) \o <<"createTree">>
                 /\ Throw("Failed to create tree")
                 /\ UNCHANGED newTree
            ELSE /\ calls' = calls \o <<"getBaseTree">> \o blobCalls(n) \o <<"createTree">>
                 /\ newTree' = ProviderTree(baseTree, TreeEntries(baseOk, baseTree, filesToUpdate))
                 /\ pc' = "createCommit"
                 /\ resp' = resp
    /\ UNCHANGED <<users, now, env, browser, commits, tip, req, snap, loadFailed, filesToUpdate,
                   results, currentCommit, newCommit, opsUsed>>

\* The commit object createCommit posts: the new tree, the tip read as sole parent.
CommitObject(tree, parentSha) == [parent |-> parentSha, tree |-> tree]

CreateCommit ==
    /\ pc = "createCommit"
    /\ calls' = Append(calls, "createCommit")
    /\ \E ok \in BOOLEAN :
        IF ok
        THEN /\ commits' = Append(commits, CommitObject(newTree, currentCommit.sha))
             /\ newCommit' = Len(commits) + 1
             /\ pc' = "updateReference"
             /\ resp' = resp
        ELSE /\ Throw("Failed to create commit")
             /\ UNCHANGED <<commits, newCommit>>
    /\ UNCHANGED <<users, now, env, browser, tip, req, snap, loadFailed, filesToUpdate, results,
                   currentCommit, newTree, opsUsed>>

\* A reference update that is forced.
FastForward_Forced(sha) == TRUE

\* The provider moves a reference only forward: to a commit descending from its
\* present target.
FastForward(sha) == commits[sha].parent = tip

\* updateReference, then the success response.
UpdateReference ==
    /\ pc = "updateReference"
    /\ calls' = calls \o <<"updateReference", RefRequest("PATCH", currentCommit.branch)>>
    /\ \E ok \in BOOLEAN :
        IF ok /\ FastForward(newCommit)
        THEN /\ tip' = newCommit
             /\ pc' = "done"
             /\ resp' = [status |-> 200,
                         text |-> "All changes saved successfully in a single commit",
                         commitSha |-> newCommit, data |-> Absent]
        ELSE /\ Throw("Failed to update reference")
             /\ UNCHANGED tip
    /\ UNCHANGED <<users, now, env, browser, commits, req, snap, loadFailed, filesToUpdate, results,
                   currentCommit, newTree, newCommit, opsUsed>>

\* ---------------------------------------------------------- handleContent
ContentPatches == {[title |-> "put title"]}

\* handleContent: no token is read. GET returns the file; PUT overlays the body
\* on the stored document, stamps updatedAt and saves through the contents API;
\* any other method is 405.
HandleContent ==
    /\ pc = "idle"
    /\ Len(commits) < MaxCommits
    /\ UNCHANGED locals
    /\ \E method \in {"GET", "PUT", "POST"}, token \in DataTokens(now),
          patch \in ContentPatches, fetchOk \in BOOLEAN, saveOk \in BOOLEAN :
        /\ method = "PUT" => opsUsed < MaxOps
        /\ opsUsed' = IF method = "PUT" THEN opsUsed + 1 ELSE opsUsed
        /\ LET content == getFileFromGitHub(TipTree, CONTENT, fetchOk)
               updatedContent == Spread(Spread(content, patch), [updatedAt |-> now])
           IN
           /\ req' = [endpoint |-> "content", method |-> method, token |-> token,
                      body |-> IF method = "PUT" THEN patch ELSE <<>>]
           /\ pc' = "done"
           /\ IF ~env.GITHUB_TOKEN
              THEN /\ resp' = Reply(500, "GitHub token not configured")
                   /\ calls' = <<>>
                   /\ UNCHANGED <<commits, tip>>
              ELSE IF method = "GET"
              THEN /\ resp' = Reply(200, "content")
                   /\ calls' = <<"getFileFromGitHub">>
                   /\ UNCHANGED <<commits, tip>>
              ELSE IF method = "PUT"
              THEN /\ calls' = <<"getFileFromGitHub", "saveFileToGitHub">>
                   /\ IF saveOk
                      THEN /\ ContentsPut(CONTENT, updatedContent)
                           /\ resp' = Reply(200, "updatedContent")
                      ELSE /\ resp' = Reply(500, "GitHub API error")
                           /\ UNCHANGED <<commits, tip>>
              ELSE /\ resp' = Reply(405, "Method not allowed")
                   /\ calls' = <<>>
                   /\ UNCHANGED <<commits, tip>>
    /\ UNCHANGED <<users, now, env, browser>>

\* The invocation ends: nothing of the handler's state survives it.
Return ==
    /\ pc = "done"
    /\ pc' = "idle"
    /\ req' = NoRequest
    /\ resp' = NoResponse
    /\ calls' = <<>>
    /\ users' = <<>>
    /\ ResetLocals
    /\ UNCHANGED <<now, env, browser, commits, tip, opsUsed>>

\* ------------------------------------------------------------------ clock
Tick ==
    /\ pc = "idle"
    /\ now < MaxTime
    /\ now' = now + 1
    /\ UNCHANGED <<users, env, browser, commits, tip, pc, req, locals, calls, resp, opsUsed>>

Next ==
    \/ HandleBatchEntry
    \/ ProcessProducts
    \/ ProcessGallery
    \/ ProcessHero
    \/ ProcessContent
    \/ GetCurrentCommit
    \/ CreateTree
    \/ CreateCommit
    \/ UpdateReference
    \/ HandleContent
    \/ Return
    \/ Tick

Spec == Init /\ [][Next]_vars

\* ------------------------------------------------- batches that only create
\* The commits of a behaviour of the creating batches.
MaxCreateCommits == 3
\* The creates of one batch.
MaxCreates == 2

\* A create entry as the admin page sends it (the id stripped), per collection,
\* and one that still carries the page's placeholder id.
CreateEntries ==
    {<<c, "create", [name |-> "fresh"]>> : c \in Collections}
        \cup {<<"products", "create", [id |-> "temp_1", name |-> "fresh"]>>}

RECURSIVE CreateBodiesUpTo(_)
CreateBodiesUpTo(n) ==
    IF n = 0 THEN {<<>>}
    ELSE LET smaller == CreateBodiesUpTo(n - 1)
         IN smaller \cup {AddEntry(b, e) : b \in smaller, e \in CreateEntries}

\* A batch of creates arrives; the handler runs to its first provider call.
CreateBatchEntry ==
    /\ pc = "idle"
    /\ Len(commits) < MaxCreateCommits
    /\ \E token \in DataTokens(now), body \in CreateBodiesUpTo(MaxCreates) :
        LET guard == BatchGuard(token, env.ADMIN_PASSWORD, env.GITHUB_TOKEN, now)
            parsed == IF token.form = "absent" \/ ~verifyToken(token, env.ADMIN_PASSWORD, now).valid
                      THEN <<>> ELSE body
        IN /\ req' = [endpoint |-> "batch", method |-> "POST", token |-> token, body |-> parsed]
           /\ IF guard # NoResponse
              THEN pc' = "done" /\ resp' = guard
              ELSE pc' = "products" /\ resp' = NoResponse
    /\ UNCHANGED <<users, now, env, browser, commits, tip, locals, calls, opsUsed>>

NextCreate ==
    \/ CreateBatchEntry
    \/ ProcessProducts
    \/ ProcessGallery
    \/ ProcessHero
    \/ ProcessContent
    \/ GetCurrentCommit
    \/ CreateTree
    \/ CreateCommit
    \/ UpdateReference
    \/ Return
    \/ Tick

SpecCreate == Init /\ [][NextCreate]_vars

\* ------------------------------------------------- a batch and its replay
\* The commits of a behaviour of a batch and its replay.
MaxReplayCommits == 3

\* The entries of a replayed payload, all for products: an update of a stored
\* id, a create, a delete of a stored id and a delete of an id that is in the
\* collection no more.
ReplayEntries ==
    {<<"products", "update", [id |-> "p1", name |-> "renamed"]>>,
     <<"products", "create", [name |-> "fresh"]>>,
     <<"products", "delete", "p1">>,
     <<"products", "delete", "gone">>}

RECURSIVE ReplayBodiesUpTo(_)
ReplayBodiesUpTo(n) ==
    IF n = 0 THEN {<<>>}
    ELSE LET smaller == ReplayBodiesUpTo(n - 1)
         IN smaller \cup {AddEntry(b, e) : b \in smaller, e \in ReplayEntries}

\* The batch arrives for the first time.
ReplayBatchEntry ==
    /\ pc = "idle"
    /\ Len(commits) < MaxReplayCommits
    /\ \E token \in DataTokens(now), body \in ReplayBodiesUpTo(MaxCreates) :
        LET guard == BatchGuard(token, env.ADMIN_PASSWORD, env.GITHUB_TOKEN, now)
            parsed == IF token.form = "absent" \/ ~verifyToken(token, env.ADMIN_PASSWORD, now).valid
                      THEN <<>> ELSE body
        IN /\ req' = [endpoint |-> "batch", method |-> "POST", token |-> token, body |-> parsed]
           /\ IF guard # NoResponse
              THEN pc' = "done" /\ resp' = guard
              ELSE pc' = "products" /\ resp' = NoResponse
    /\ UNCHANGED <<users, now, env, browser, commits, tip, locals, calls, opsUsed>>

\* The client did not see the response and sends the same payload again, later:
\* a new invocation of the handler with the same request.
RetryBatch ==
    /\ pc = "done" /\ req.endpoint = "batch" /\ resp.status \in {200, 500}
    /\ now < MaxTime
    /\ Len(commits) < MaxReplayCommits
    /\ now' = now + 1
    /\ ResetLocals
    /\ calls' = <<>>
    /\ LET guard == BatchGuard(req.token, env.ADMIN_PASSWORD, env.GITHUB_TOKEN, now + 1)
       IN IF guard # NoResponse
          THEN pc' = "done" /\ resp' = guard
          ELSE pc' = "products" /\ resp' = NoResponse
    /\ UNCHANGED <<users, env, browser, commits, tip, req, opsUsed>>

NextReplay ==
    \/ ReplayBatchEntry
    \/ RetryBatch
    \/ ProcessProducts
    \/ ProcessGallery
    \/ ProcessHero
    \/ ProcessContent
    \/ GetCurrentCommit
    \/ CreateTree
    \/ CreateCommit
    \/ UpdateReference

SpecReplay == Init /\ [][NextReplay]_vars

\* ------------------------------------------- a batch on any repository
NextBranch ==
    \/ ReplayBatchEntry
    \/ ProcessProducts
    \/ ProcessGallery
    \/ ProcessHero
    \/ ProcessContent
    \/ GetCurrentCommitAnyRepo
    \/ CreateTree
    \/ CreateCommit
    \/ UpdateReference

SpecBranch == Init /\ [][NextBranch]_vars

\* ------------------------------------------------------ two batches racing
\* Another invocation of handleBatch, for another client, runs while this one
\* is between its guard and its response: its commit on the tip it read, its
\* reference update.
RacingBatch ==
    /\ pc \notin {"idle", "done"}
    /\ Len(commits) < MaxReplayCommits
    /\ \E path \in {PRODUCTS, GALLERY} :
         LET stored == IF path \in DOMAIN TipTree THEN TipTree[path] ELSE <<>>
             tree == Spread(TipTree, [p \in {path} |-> Append(stored, Item("x9", "shawl"))])
         IN  commits' = Append(commits, CommitObject(tree, tip))
    /\ tip' = Len(commits) + 1
    /\ UNCHANGED <<users, now, env, browser, pc, req, locals, calls, resp, opsUsed>>

NextRace ==
    \/ ReplayBatchEntry
    \/ RacingBatch
    \/ ProcessProducts
    \/ ProcessGallery
    \/ ProcessHero
    \/ ProcessContent
    \/ GetCurrentCommit
    \/ CreateTree
    \/ CreateCommit
    \/ UpdateReference

SpecRace == Init /\ [][NextRace]_vars

\* ============================================================ account store
\* Longest account file and seed list the load is applied to.
MaxUsers == 2
\* Commits of a behaviour of the account handlers (the first is the deployment).
MaxUserCommits == 3

\* s.toLowerCase() over the user names of the model: the spellings of the
\* default account's name fold to "admin", "Bob" to "bob", every other name is
\* lowercase already.
AdminSpellings == {"Admin", "admin", "ADMIN"}
toLowerCase(s) ==
    IF s \in AdminSpellings THEN "admin"
    ELSE IF s = "Bob" THEN "bob"
    ELSE IF s = "Asha" THEN "asha"
    ELSE s

\* user.isDefault as a condition.
IsDefault_Never(u) == FALSE

IsDefault(u) == "isDefault" \in DOMAIN u /\ u.isDefault = TRUE

\* users[i].encryptedPassword || fallback
PasswordOr(u, fallback) ==
    IF "encryptedPassword" \in DOMAIN u /\ u.encryptedPassword.text # ""
    THEN u.encryptedPassword ELSE fallback

\* users.findIndex(u => u.username.toLowerCase() === lower), 0 standing for -1.
FindIndexByUsername(arr, lower) ==
    IF \E i \in 1..Len(arr) : toLowerCase(arr[i].username) = lower
    THEN CHOOSE i \in 1..Len(arr) :
            /\ toLowerCase(arr[i].username) = lower
            /\ \A j \in 1..(i - 1) : toLowerCase(arr[j].username) # lower
    ELSE 0

\* users.js getDefaultAdminUser: the plain text fallback without ADMIN_PASSWORD.
getDefaultAdminUser(adminPassword, t) ==
    IF adminPassword = NoSecret
    THEN [username |-> "Admin", encryptedPassword |-> StoredText("admin"), role |-> "admin",
          email |-> "admin@shreeadvaya.com", createdAt |-> t,
          isPlainText |-> TRUE, isDefault |-> TRUE]
    ELSE [username |-> "Admin",
          encryptedPassword |-> encryptPassword(adminPassword, adminPassword),
          role |-> "admin", email |-> "admin@shreeadvaya.com", createdAt |-> t,
          isDefault |-> TRUE]

\* One entry of ADMIN_USERS, split at the colons: [username, encryptedPassword,
\* role = 'admin'].
ParseSeed(parts) ==
    [username |-> parts[1], encryptedPassword |-> StoredText(parts[2]),
     role |-> IF Len(parts) >= 3 THEN parts[3] ELSE "admin"]

\* How the fetch of data/users.json can end: a response (200 with the file, 404
\* without one), an error status or a network error, a body that is no array.
LoadOutcomes == {"ok", "error", "notArray"}

\* users.js loadUsers: the file when it could be fetched and is an array, else
\* the ADMIN_USERS seed; then the default account is put first when no entry is
\* named admin (in any letter case), else the first such entry is overlaid with it,
\* its own encryptedPassword kept.
loadUsers(tree, outcome, e, t) ==
    LET loaded == IF e.GITHUB_TOKEN /\ outcome = "ok" /\ USERS \in DOMAIN tree
                  THEN tree[USERS] ELSE <<>>
        seeded == IF Len(loaded) = 0 /\ e.ADMIN_USERS # <<>>
                  THEN [i \in 1..Len(e.ADMIN_USERS) |-> ParseSeed(e.ADMIN_USERS[i])]
                  ELSE loaded
        defaultAdmin == getDefaultAdminUser(e.ADMIN_PASSWORD, t)
        adminIndex == FindIndexByUsername(seeded, "admin")
    IN IF adminIndex = 0
       THEN <<defaultAdmin>> \o seeded
       ELSE [seeded EXCEPT ![adminIndex] =
                Spread(Spread(Spread(@, defaultAdmin),
                              [encryptedPassword |->
                                  PasswordOr(@, defaultAdmin.encryptedPassword)]),
                       [isDefault |-> TRUE])]

\* "Ensure Admin user is always included before saving".
EnsureAdmin(list, adminPassword, t) ==
    IF adminPassword # NoSecret /\ FindIndexByUsername(list, "admin") = 0
    THEN <<[username |-> "Admin",
            encryptedPassword |-> encryptPassword(adminPassword, adminPassword),
            role |-> "admin", email |-> "admin@shreeadvaya.com", createdAt |-> t,
            isDefault |-> TRUE]>> \o list
    ELSE list

UsersGuard_AnyRole(token, secret, t) ==
    IF token.form = "absent" THEN Reply(401, "Authentication required")
    ELSE IF ~verifyToken(token, secret, t).valid
    THEN Reply(401, "Invalid or expired token")
    ELSE NoResponse

\* The guard of the account handlers: 401 without a token or with one that does
\* not verify, 403 unless the role is admin; NoResponse lets the request through.
UsersGuard(token, secret, t) ==
    IF token.form = "absent" THEN Reply(401, "Authentication required")
    ELSE IF ~verifyToken(token, secret, t).valid
    THEN Reply(401, "Invalid or expired token")
    ELSE IF verifyToken(token, secret, t).user.role # "admin"
    THEN Reply(403, "Admin access required")
    ELSE NoResponse

ValidRoles == {"admin", "editor", "viewer"}
MinPasswordLength == 6
\* The passwords of the requests, with their lengths.
PasswordLength(password) == IF password = "short" THEN 5 ELSE 7

\* What a handler decided: the response and, when save is set, the list to save.
OutcomeData(status, text, list, save, data) ==
    [status |-> status, text |-> text, users |-> list, save |-> save, data |-> data]
Outcome(status, text, list, save) == OutcomeData(status, text, list, save, Absent)

\* The fields of u among keys: what JSON keeps of { k: u.k, ... }, an undefined
\* value being left out.
Pick(u, keys) == [k \in keys \cap DOMAIN u |-> u[k]]

\* PUT, the validation of the body (before anything is loaded).
ValidateUpdate(body) ==
    IF body.username = "" THEN Reply(400, "Username is required")
    ELSE IF "role" \in DOMAIN body /\ body.role \notin ValidRoles
    THEN Reply(400, "Role must be one of: admin, editor, viewer")
    ELSE IF "password" \in DOMAIN body /\ PasswordLength(body.password) < MinPasswordLength
    THEN Reply(400, "Password must be at least 6 characters")
    ELSE NoResponse

\* PUT, from the loaded list on.
updateUser(list, body, e, t) ==
    LET userIndex == FindIndexByUsername(list, toLowerCase(body.username))
        hasRole == "role" \in DOMAIN body
        withPassword == IF "password" \in DOMAIN body
                        THEN [list EXCEPT ![userIndex] =
                                 Spread(@, [encryptedPassword |->
                                               encryptPassword(body.password, e.ADMIN_PASSWORD)])]
                        ELSE list
        withRole == IF hasRole /\ ~IsDefault(withPassword[userIndex])
                    THEN [withPassword EXCEPT ![userIndex] = Spread(@, [role |-> body.role])]
                    ELSE withPassword
        withFlag == IF toLowerCase(withRole[userIndex].username) = "admin"
                    THEN [withRole EXCEPT ![userIndex] = Spread(@, [isDefault |-> TRUE])]
                    ELSE withRole
    IN IF userIndex = 0 THEN Outcome(404, "User not found", list, FALSE)
       ELSE IF IsDefault(list[userIndex]) /\ hasRole /\ body.role # "admin"
       THEN Outcome(400, "Cannot change default admin user role", list, FALSE)
       ELSE IF IsDefault(list[userIndex]) /\ toLowerCase(body.username) # "admin"
       THEN Outcome(400, "Cannot change default admin username", list, FALSE)
       ELSE IF ~e.GITHUB_TOKEN
       THEN Outcome(500, "GitHub configuration missing",
                    EnsureAdmin(withFlag, e.ADMIN_PASSWORD, t), FALSE)
       ELSE LET saved == EnsureAdmin(withFlag, e.ADMIN_PASSWORD, t)
            IN OutcomeData(200, "User updated successfully", saved, TRUE,
                           [user |-> Pick(saved[userIndex], {"username", "role", "email"})])

\* users.splice(userIndex, 1)
Splice(list, userIndex) ==
    [i \in 1..(Len(list) - 1) |-> IF i < userIndex THEN list[i] ELSE list[i + 1]]

deleteUser_NoSelfCheck(list, body, actor, e, t) ==
    LET userIndex == FindIndexByUsername(list, toLowerCase(body.username))
    IN IF userIndex = 0 THEN Outcome(404, "User not found", list, FALSE)
       ELSE IF IsDefault(list[userIndex])
       THEN Outcome(400, "Cannot delete default admin user", list, FALSE)
       ELSE IF ~e.GITHUB_TOKEN
       THEN Outcome(500, "GitHub configuration missing",
                    EnsureAdmin(Splice(list, userIndex), e.ADMIN_PASSWORD, t), FALSE)
       ELSE Outcome(200, "User deleted successfully",
                    EnsureAdmin(Splice(list, userIndex), e.ADMIN_PASSWORD, t), TRUE)

\* DELETE, from the loaded list on; actor is the verified user of the token.
deleteUser(list, body, actor, e, t) ==
    LET userIndex == FindIndexByUsername(list, toLowerCase(body.username))
    IN IF userIndex = 0 THEN Outcome(404, "User not found", list, FALSE)
       ELSE IF IsDefault(list[userIndex])
       THEN Outcome(400, "Cannot delete default admin user", list, FALSE)
       ELSE IF toLowerCase(list[userIndex].username) = toLowerCase(actor.username)
       THEN Outcome(400, "Cannot delete your own account", list, FALSE)
       ELSE IF ~e.GITHUB_TOKEN
       THEN Outcome(500, "GitHub configuration missing",
                    EnsureAdmin(Splice(list, userIndex), e.ADMIN_PASSWORD, t), FALSE)
       ELSE Outcome(200, "User deleted successfully",
                    EnsureAdmin(Splice(list, userIndex), e.ADMIN_PASSWORD, t), TRUE)

safeUser_Raw(u) == u

\* GET: the list without the credentials.
safeUser(u) ==
    Spread(Spread(Pick(u, {"username", "role", "createdAt"}),
                  [email |-> IF "email" \in DOMAIN u THEN u.email
                             ELSE u.username \o "@shreeadvaya.com"]),
           [isDefault |-> IsDefault(u)])
listUsers(list) ==
    OutcomeData(200, "", list, FALSE, [users |-> [i \in 1..Len(list) |-> safeUser(list[i])]])

RegisterGuard_Open(isFirstUser, token, secret, t) == NoResponse

\* register.js: the guard, skipped only when loadUsers returned no account.
RegisterGuard(isFirstUser, token, secret, t) ==
    IF isFirstUser THEN NoResponse
    ELSE IF token.form = "absent"
    THEN Reply(401, "Authentication required. Please login as admin to register new users.")
    ELSE IF ~verifyToken(token, secret, t).valid
    THEN Reply(401, "Invalid or expired token")
    ELSE IF verifyToken(token, secret, t).user.role # "admin"
    THEN Reply(403, "Admin access required for user registration")
    ELSE NoResponse

\* username.trim() on the names of the requests.
trim(s) == IF s = " " THEN "" ELSE s
\* /^[a-zA-Z0-9_]{3,20}$/ on the names of the requests.
MatchesUsernamePattern(s) == s \in {"Admin", "admin", "asha", "bob", "Bob", "carol", "ghost"}

\* register.js: the validation of the body.
ValidateRegister(body) ==
    IF trim(body.username) = "" THEN Reply(400, "Username is required")
    ELSE IF PasswordLength(body.password) < MinPasswordLength
    THEN Reply(400, "Password must be at least 6 characters")
    ELSE IF ~MatchesUsernamePattern(body.username)
    THEN Reply(400, "Username must be 3-20 characters and contain only letters, numbers, and underscores")
    ELSE IF "role" \in DOMAIN body /\ body.role \notin ValidRoles
    THEN Reply(400, "Role must be one of: admin, editor, viewer")
    ELSE NoResponse

\* register.js, from the second loadUsers on.
registerUser(list, body, isFirstUser, e, t) ==
    LET role == IF "role" \in DOMAIN body THEN body.role ELSE "editor"
        newUser == [username |-> trim(body.username),
                    encryptedPassword |-> encryptPassword(body.password, e.ADMIN_PASSWORD),
                    role |-> IF isFirstUser THEN "admin" ELSE role,
                    email |-> body.username \o "@shreeadvaya.com",
                    createdAt |-> t]
    IN IF FindIndexByUsername(list, toLowerCase(body.username)) # 0
       THEN Outcome(409, "Username already exists", list, FALSE)
       ELSE IF e.ADMIN_PASSWORD = NoSecret
       THEN Outcome(500, "Failed to register user: ADMIN_PASSWORD environment variable is required for encryption",
                    list, FALSE)
       ELSE IF ~e.GITHUB_TOKEN
       THEN Outcome(500, "GitHub configuration missing. Please set GITHUB_TOKEN, GITHUB_OWNER, and GITHUB_REPO environment variables.",
                    Append(list, newUser), FALSE)
       ELSE OutcomeData(201, "User registered successfully", Append(list, newUser), TRUE,
                        [user |-> Pick(newUser, {"username", "role", "email"})])

\* users.js findUser: users.find(u => u.username === username), 0 when none.
FindIndexExact(arr, username) ==
    LET hits == {i \in 1..Len(arr) : arr[i].username = username}
    IN IF hits = {} THEN 0 ELSE CHOOSE i \in hits : \A j \in hits : i <= j

AuthNull == [ok |-> FALSE, username |-> "", role |-> ""]
AuthUser(u) ==
    [ok |-> TRUE, username |-> u.username,
     role |-> IF "role" \in DOMAIN u THEN u.role ELSE "admin"]

\* An authentication that compares with the stored text whether or not the
\* credential decrypts.
authenticateUser_Undecrypted(list, username, password, key) ==
    LET index == FindIndexExact(list, username)
    IN  IF index = 0 \/ "encryptedPassword" \notin DOMAIN list[index] THEN AuthNull
        ELSE IF password = list[index].encryptedPassword.text THEN AuthUser(list[index])
        ELSE AuthNull

\* users.js authenticateUser on the loaded list: null (AuthNull) without such a
\* user, on a failed decryption and on a password that differs.
authenticateUser(list, username, password, key) ==
    LET index == FindIndexExact(list, username)
        user == list[index]
        stored == IF "encryptedPassword" \in DOMAIN user THEN user.encryptedPassword
                  ELSE StoredText("")
        decrypted == decryptPassword(stored, key)
    IN IF index = 0 THEN AuthNull
       ELSE IF "isPlainText" \in DOMAIN user /\ user.isPlainText
       THEN IF stored = StoredText(password) THEN AuthUser(user) ELSE AuthNull
       ELSE IF ~decrypted.ok \/ decrypted.text = "" THEN AuthNull
       ELSE IF password = decrypted.text THEN AuthUser(user)
       ELSE AuthNull

\* The two login routes: /api/auth/login-multi and /api/auth?action=login, which
\* falls back to the single password when no username is sent.
LoginRoutes == {"login-multi", "auth"}

loginUser_Oracle(route, body, list, e, t) ==
    IF FindIndexExact(list, body.username) = 0
    THEN Outcome(404, "User not found", list, FALSE)
    ELSE Outcome(401, "Invalid credentials", list, FALSE)

\* The login handler from the parsed body on; the response and the loaded list.
loginUser(route, body, list, e, t) ==
    LET user == authenticateUser(list, body.username, body.password, e.ADMIN_PASSWORD)
        session(u) == [username |-> u.username, role |-> u.role]
    IN IF route = "login-multi" /\ (body.username = "" \/ body.password = "")
       THEN Outcome(400, "Username and password required", <<>>, FALSE)
       ELSE IF body.password = ""
       THEN Outcome(400, "Password required", <<>>, FALSE)
       ELSE IF body.username # ""
       THEN IF ~user.ok THEN Outcome(401, "Invalid credentials", list, FALSE)
            ELSE IF e.ADMIN_PASSWORD = NoSecret
            THEN Outcome(500, "ADMIN_PASSWORD environment variable is required for JWT",
                         list, FALSE)
            ELSE OutcomeData(200, "", list, FALSE,
                             [token |-> generateToken(session(user), e.ADMIN_PASSWORD, t),
                              user |-> session(user), expiresIn |-> TokenTTL])
       ELSE IF e.ADMIN_PASSWORD = NoSecret
       THEN Outcome(500, "Admin password not configured", <<>>, FALSE)
       ELSE IF body.password = e.ADMIN_PASSWORD
       THEN OutcomeData(200, "", <<>>, FALSE,
                        [token |-> generateToken([username |-> "admin", role |-> "admin"],
                                                 e.ADMIN_PASSWORD, t),
                         expiresIn |-> TokenTTL])
       ELSE Outcome(401, "Invalid credentials", <<>>, FALSE)

\* The verify handler: the token of the header or of the body.
verifyRequest(token, secret, t) ==
    LET verification == verifyToken(token, secret, t)
    IN IF token.form = "absent" THEN Reply(401, "No token provided")
       ELSE IF ~verification.valid THEN Reply(401, verification.error)
       ELSE ReplyData(200, "", [valid |-> TRUE, user |-> verification.user])

\* ------------------------------------------------- the account handlers
\* The sessions of the account requests: the default account, a second admin,
\* an editor and a viewer.
UserSessions ==
    {[username |-> "Admin", role |-> "admin"],
     [username |-> "asha", role |-> "admin"],
     [username |-> "bob", role |-> "editor"],
     [username |-> "vera", role |-> "viewer"]}
UserTokens(t) ==
    {tk \in RequestTokens(UserSessions, t) :
        verifyToken(tk, Secret, t).valid \/ tk.role \in {"", "admin"}}

\* The bodies of the account requests: the default account under two spellings,
\* the stored accounts, a name no account has and a missing name; a role that
\* is valid or not; a password that is long enough or not.
TargetNames == {"Admin", "admin", "asha", "bob", "ghost", ""}
UpdateBodies ==
    {Spread(Spread([username |-> n], r), p) :
        n \in TargetNames,
        r \in {Absent} \cup {[role |-> x] : x \in {"admin", "editor", "root"}},
        p \in {Absent} \cup {[password |-> x] : x \in {"secret1", "short"}}}
DeleteBodies == {[username |-> n] : n \in TargetNames \cup {"Asha"}}

\* The end of an account handler: the guard's or the validation's rejection, the
\* handler's own response, or the file saved through the contents API (which can
\* fail: the catch answers 500). before: the calls made ahead of the guard.
Respond(before, guard, invalid, r, saveOk, failure) ==
    IF guard # NoResponse \/ invalid # NoResponse
    THEN /\ resp' = IF guard # NoResponse THEN guard ELSE invalid
         /\ users' = <<>>
         /\ calls' = before
         /\ UNCHANGED <<commits, tip>>
    ELSE IF ~r.save
    THEN /\ resp' = ReplyData(r.status, r.text, r.data)
         /\ users' = r.users
         /\ calls' = before \o <<"loadUsers">>
         /\ UNCHANGED <<commits, tip>>
    ELSE IF saveOk
    THEN /\ ContentsPut(USERS, r.users)
         /\ resp' = ReplyData(r.status, r.text, r.data)
         /\ users' = r.users
         /\ calls' = before \o <<"loadUsers", "saveFileToGitHub">>
    ELSE /\ resp' = Reply(500, failure)
         /\ users' = r.users
         /\ calls' = before \o <<"loadUsers", "saveFileToGitHub">>
         /\ UNCHANGED <<commits, tip>>

\* PUT /api/auth/users-management.
UpdateUser ==
    /\ pc = "idle"
    /\ Len(commits) < MaxUserCommits
    /\ \E token \in UserTokens(now), body \in UpdateBodies,
          outcome \in LoadOutcomes, saveOk \in BOOLEAN :
        /\ req' = [endpoint |-> "users", method |-> "PUT", token |-> token, body |-> body]
        /\ pc' = "done"
        /\ Respond(<<>>, UsersGuard(token, env.ADMIN_PASSWORD, now),
                   ValidateUpdate(body),
                   updateUser(loadUsers(TipTree, outcome, env, now), body, env, now),
                   saveOk, "Failed to update user: GitHub API error")
    /\ UNCHANGED <<now, env, browser, locals, opsUsed>>

\* DELETE /api/auth/users-management.
DeleteUser ==
    /\ pc = "idle"
    /\ Len(commits) < MaxUserCommits
    /\ \E token \in UserTokens(now), body \in DeleteBodies,
          outcome \in LoadOutcomes, saveOk \in BOOLEAN :
        /\ req' = [endpoint |-> "users", method |-> "DELETE", token |-> token, body |-> body]
        /\ pc' = "done"
        /\ Respond(<<>>, UsersGuard(token, env.ADMIN_PASSWORD, now),
                   IF body.username = "" THEN Reply(400, "Username is required")
                                         ELSE NoResponse,
                   deleteUser(loadUsers(TipTree, outcome, env, now), body,
                              verifyToken(token, env.ADMIN_PASSWORD, now).user, env, now),
                   saveOk, "Failed to delete user: GitHub API error")
    /\ UNCHANGED <<now, env, browser, locals, opsUsed>>

\* GET /api/auth/users-management.
ListUsers ==
    /\ pc = "idle"
    /\ \E token \in UserTokens(now), outcome \in LoadOutcomes :
        /\ req' = [endpoint |-> "users", method |-> "GET", token |-> token, body |-> Absent]
        /\ pc' = "done"
        /\ Respond(<<>>, UsersGuard(token, env.ADMIN_PASSWORD, now), NoResponse,
                   listUsers(loadUsers(TipTree, outcome, env, now)),
                   FALSE, "Failed to list users")
    /\ UNCHANGED <<now, env, browser, locals, opsUsed>>

\* The bodies of the registrations: a new name, a stored name in another letter
\* case, the default account's name, and names the validation refuses.
RegisterNames == {"carol", "Bob", "admin", "x!", " "}
RegisterBodies ==
    {Spread([username |-> n, password |-> p], r) :
        n \in RegisterNames, p \in {"secret1", "short"},
        r \in {Absent} \cup {[role |-> x] : x \in {"viewer", "root"}}}

\* POST /api/auth/register.
Register ==
    /\ pc = "idle"
    /\ Len(commits) < MaxUserCommits
    /\ \E token \in UserTokens(now), body \in RegisterBodies,
          first \in LoadOutcomes, outcome \in LoadOutcomes, saveOk \in BOOLEAN :
        LET isFirstUser == Len(loadUsers(TipTree, first, env, now)) = 0
        IN /\ req' = [endpoint |-> "register", method |-> "POST", token |-> token, body |-> body]
           /\ pc' = "done"
           /\ Respond(<<"loadUsers">>,
                      RegisterGuard(isFirstUser, token, env.ADMIN_PASSWORD, now),
                      ValidateRegister(body),
                      registerUser(loadUsers(TipTree, outcome, env, now), body,
                                   isFirstUser, env, now),
                      saveOk, "Failed to register user: GitHub API error")
    /\ UNCHANGED <<now, env, browser, locals, opsUsed>>

\* The names and passwords of the logins: stored accounts in their own and in
\* another letter case, the registered name, a name no account has, no name;
\* the stored passwords, the registered one, the plain text default, a wrong
\* one, none.
LoginNames == {"Admin", "admin", "bob", "Bob", "carol", "dora", "erin", "fay", "ghost", ""}
LoginPasswords == {Secret, "bob-pw1", "secret1", "dora-pw", "admin", "wrong", ""}

\* POST to a login route.
Login ==
    /\ pc = "idle"
    /\ \E route \in LoginRoutes, username \in LoginNames, password \in LoginPasswords,
          outcome \in LoadOutcomes :
        LET body == [username |-> username, password |-> password]
            r == loginUser(route, body, loadUsers(TipTree, outcome, env, now), env, now)
        IN /\ req' = [endpoint |-> "login", method |-> "POST", token |-> AbsentToken,
                      body |-> body]
           /\ resp' = ReplyData(r.status, r.text, r.data)
           /\ users' = r.users
           /\ calls' = IF r.users = <<>> THEN <<>> ELSE <<"loadUsers">>
    /\ pc' = "done"
    /\ UNCHANGED <<now, env, browser, commits, tip, locals, opsUsed>>

\* POST /api/auth/verify-multi.
Verify ==
    /\ pc = "idle"
    /\ \E token \in UserTokens(now) :
        /\ req' = [endpoint |-> "verify", method |-> "POST", token |-> token, body |-> Absent]
        /\ resp' = verifyRequest(token, env.ADMIN_PASSWORD, now)
    /\ pc' = "done"
    /\ calls' = <<>>
    /\ users' = <<>>
    /\ UNCHANGED <<now, env, browser, commits, tip, locals, opsUsed>>

\* Accounts whose credential no longer decrypts: one encrypted before
\* ADMIN_PASSWORD was changed, one whose authentication tag was altered, one
\* whose record is not of the iv:authTag:ciphertext shape.
StaleUsers ==
    <<[username |-> "dora", encryptedPassword |-> Cipher("old-key", "dora-pw", TRUE),
       role |-> "editor", email |-> "dora@shreeadvaya.com", createdAt |-> 0],
      [username |-> "erin", encryptedPassword |-> Cipher(Secret, "dora-pw", FALSE),
       role |-> "editor", email |-> "erin@shreeadvaya.com", createdAt |-> 0],
      [username |-> "fay", encryptedPassword |-> StoredText("dora-pw"),
       role |-> "editor", email |-> "fay@shreeadvaya.com", createdAt |-> 0]>>
TreeWithStaleUsers == Spread(InitTree, [p \in {USERS} |-> StoredUsers \o StaleUsers])

\* The repository before the first account was registered: no data/users.json.
TreeWithoutUsers == [p \in (DOMAIN InitTree) \ {USERS} |-> InitTree[p]]

InitUsers ==
    /\ now = 0
    /\ env \in {[GITHUB_TOKEN |-> g, ADMIN_PASSWORD |-> s, ADMIN_USERS |-> <<>>] :
                  g \in BOOLEAN, s \in {Secret, NoSecret}}
    /\ commits \in {<<[parent |-> 0, tree |-> t]>> : t \in {InitTree, TreeWithoutUsers}}
    /\ tip = 1
    /\ pc = "idle"
    /\ req = NoRequest
    /\ InitLocals
    /\ calls = <<>>
    /\ resp = NoResponse
    /\ opsUsed = 0
    /\ users = <<>>
    /\ InitBrowser

NextUsers ==
    \/ UpdateUser
    \/ DeleteUser
    \/ Return
    \/ Tick

SpecUsers == InitUsers /\ [][NextUsers]_vars

\* ------------------------------------------- every account handler together
\* The commits of a behaviour of the account handlers.
MaxAccountCommits == 2

InitAccounts ==
    /\ now = 0
    /\ env \in {[GITHUB_TOKEN |-> g, ADMIN_PASSWORD |-> s, ADMIN_USERS |-> <<>>] :
                  g \in BOOLEAN, s \in {Secret, NoSecret}}
    /\ commits \in {<<[parent |-> 0, tree |-> t]>> :
                      t \in {InitTree, TreeWithoutUsers, TreeWithStaleUsers}}
    /\ tip = 1
    /\ pc = "idle"
    /\ req = NoRequest
    /\ InitLocals
    /\ calls = <<>>
    /\ resp = NoResponse
    /\ opsUsed = 0
    /\ users = <<>>
    /\ InitBrowser

NextAccounts ==
    \/ Len(commits) < MaxAccountCommits /\ Register
    \/ Len(commits) < MaxAccountCommits /\ UpdateUser
    \/ Len(commits) < MaxAccountCommits /\ DeleteUser
    \/ ListUsers
    \/ Login
    \/ Verify
    \/ Return

SpecAccounts == InitAccounts /\ [][NextAccounts]_vars

\* ------------------------------------------------ the lifetime of a token
\* The instants of the clock, in milliseconds: the first and the last
\* millisecond of the seconds 0, 1, TokenTTL - 1, TokenTTL and TokenTTL + 1.
Instants ==
    {sec * MsPerSec + ms : sec \in {0, 1, TokenTTL - 1, TokenTTL, TokenTTL + 1},
                           ms \in {0, MsPerSec - 1}}

\* What the client sends as its token: the one the login returned, the same
\* with another signature, or text that is no token.
Presented(held) ==
    {held, [held EXCEPT !.sig = "forged"], [held EXCEPT !.form = "malformed"]}

\* The client holds the response of a login.
HoldsToken == pc = "done" /\ req.endpoint = "login" /\ resp.status = 200

\* Later, the client presents the token to /api/auth/verify-multi.
PresentToVerify ==
    /\ HoldsToken
    /\ \E t \in Instants, token \in Presented(resp.data.token) :
        /\ t >= now
        /\ now' = t
        /\ req' = [endpoint |-> "verify", method |-> "POST", token |-> token, body |-> Absent]
        /\ resp' = verifyRequest(token, env.ADMIN_PASSWORD, t)
    /\ calls' = <<>>
    /\ users' = <<>>
    /\ UNCHANGED <<env, browser, commits, tip, pc, locals, opsUsed>>

\* Later, the client presents the token to GET /api/auth/users-management.
PresentToUsers ==
    /\ HoldsToken
    /\ \E t \in Instants, token \in Presented(resp.data.token), outcome \in LoadOutcomes :
        /\ t >= now
        /\ now' = t
        /\ req' = [endpoint |-> "users", method |-> "GET", token |-> token, body |-> Absent]
        /\ Respond(<<>>, UsersGuard(token, env.ADMIN_PASSWORD, t), NoResponse,
                   listUsers(loadUsers(TipTree, outcome, env, t)),
                   FALSE, "Failed to list users")
    /\ UNCHANGED <<env, browser, pc, locals, opsUsed>>

\* Later, the client presents the token to the batch endpoint, with an empty body.
PresentToBatch ==
    /\ HoldsToken
    /\ \E t \in Instants, token \in Presented(resp.data.token) :
        LET guard == BatchGuard(token, env.ADMIN_PASSWORD, env.GITHUB_TOKEN, t)
        IN /\ t >= now
           /\ now' = t
           /\ req' = [endpoint |-> "batch", method |-> "POST", token |-> token, body |-> <<>>]
           /\ IF guard # NoResponse
              THEN pc' = "done" /\ resp' = guard
              ELSE pc' = "products" /\ resp' = NoResponse
    /\ calls' = <<>>
    /\ UNCHANGED <<users, env, browser, commits, tip, locals, opsUsed>>

InitToken ==
    /\ now \in {t \in Instants : t <= MsPerSec}
    /\ env \in {[GITHUB_TOKEN |-> g, ADMIN_PASSWORD |-> Secret, ADMIN_USERS |-> <<>>] :
                  g \in BOOLEAN}
    /\ commits = <<[parent |-> 0, tree |-> InitTree]>>
    /\ tip = 1
    /\ pc = "idle"
    /\ req = NoRequest
    /\ InitLocals
    /\ calls = <<>>
    /\ resp = NoResponse
    /\ opsUsed = 0
    /\ users = <<>>
    /\ InitBrowser

NextToken ==
    \/ Login
    \/ PresentToVerify
    \/ PresentToUsers
    \/ PresentToBatch
    \/ ProcessProducts
    \/ ProcessGallery
    \/ ProcessHero
    \/ ProcessContent
    \/ Return

SpecToken == InitToken /\ [][NextToken]_vars

\* ---------------------------------------------------- loadUsers on any file
SeqsUpTo(S, n) == UNION {[1..k -> S] : k \in 0..n}

\* The entries an account file can hold: the default account's name in three
\* letter cases and another name, either role, the isDefault flag set or missing;
\* and an entry that has a name only.
FileEntries ==
    {Spread([username |-> n, encryptedPassword |-> Cipher(Secret, "pw", TRUE),
             role |-> r], f) :
        n \in AdminSpellings \cup {"bob"}, r \in {"admin", "editor"},
        f \in {Absent, [isDefault |-> TRUE]}}
        \cup {[username |-> "Admin"]}
AccountFiles == SeqsUpTo(FileEntries, MaxUsers)

\* ADMIN_USERS: unset, "admin:pw:editor", "carol:pw".
SeedLists == {<<>>, << <<"admin", "pw", "editor">> >>, << <<"carol", "pw">> >>}

TreeWithUsers(file) == Spread(InitTree, [p \in {USERS} |-> file])

InitLoad ==
    /\ now = 0
    /\ env \in {[GITHUB_TOKEN |-> g, ADMIN_PASSWORD |-> s, ADMIN_USERS |-> seed] :
                  g \in BOOLEAN, s \in {Secret, NoSecret}, seed \in SeedLists}
    /\ commits \in {<<[parent |-> 0, tree |-> t]>> :
                      t \in {TreeWithoutUsers} \cup {TreeWithUsers(f) : f \in AccountFiles}}
    /\ tip = 1
    /\ pc = "idle"
    /\ req = NoRequest
    /\ InitLocals
    /\ calls = <<>>
    /\ resp = NoResponse
    /\ opsUsed = 0
    /\ users = <<>>
    /\ InitBrowser

\* One call of loadUsers.
LoadUsers ==
    /\ pc = "idle"
    /\ \E outcome \in LoadOutcomes :
        users' = loadUsers(TipTree, outcome, env, now)
    /\ pc' = "loaded"
    /\ calls' = <<"loadUsers">>
    /\ UNCHANGED <<now, env, browser, commits, tip, req, locals, resp, opsUsed>>

NextLoad == LoadUsers

SpecLoad == InitLoad /\ [][NextLoad]_vars

\* ------------------------------------------------- the admin page: apiCall
backend == <<env, commits, tip, pc, req, locals, calls, resp, opsUsed, users>>

Top == frames[Len(frames)]

\* The frame on top awaits at the place named and apiCall(retryCount + 1) runs.
Await(place) ==
    [frames EXCEPT ![Len(frames)].at = place]
        \o <<[retryCount |-> Top.retryCount + 1, at |-> "start"]>>

\* An error thrown in the try block of the frame on top.
Raise(error) ==
    /\ thrown' = error
    /\ frames' = [frames EXCEPT ![Len(frames)].at = "try"]
    /\ UNCHANGED <<settled, delay>>

\* await new Promise(resolve => setTimeout(resolve, delay)); return await apiCall(...).
Retry(place) ==
    /\ delay' = RETRY_DELAY * pow(2, Top.retryCount)
    /\ frames' = Await(place)
    /\ thrown' = NoError
    /\ UNCHANGED settled

\* The admin page calls apiCall(endpoint, method, data).
ApiCall ==
    /\ settled = "none"
    /\ settled' = "pending"
    /\ frames' = <<[retryCount |-> 0, at |-> "start"]>>
    /\ UNCHANGED <<now, backend, localStorage, thrown, fetches, delay, loginShown,
                   notifications, pendingChanges>>

\* The try block of one invocation: the token, the fetch, the response.
Attempt ==
    /\ frames # <<>>
    /\ Top.at = "start"
    /\ IF STORAGE_KEY \notin DOMAIN localStorage
         THEN /\ loginShown' = TRUE
              /\ Raise(NotAuthenticated)
              /\ UNCHANGED <<localStorage, fetches>>
         ELSE \E response \in Responses :
                /\ fetches' = fetches + 1
                /\ IF response.status = 0
                     THEN Raise(FailedToFetch) /\ UNCHANGED <<localStorage, loginShown>>
                   ELSE IF response.status = 401
                     THEN /\ localStorage' =
                                removeItem(removeItem(localStorage, STORAGE_KEY), "admin_user")
                          /\ loginShown' = TRUE
                          /\ Raise(SessionExpired)
                   ELSE /\ UNCHANGED <<localStorage, loginShown>>
                        /\ IF response.status >= 500 /\ response.status < 600
                              /\ Top.retryCount < MAX_RETRIES
                             THEN Retry("try")
                           ELSE IF response.body = "other"
                             THEN Raise(ServerError)
                           ELSE IF response.body = "malformed"
                             THEN IF Top.retryCount < MAX_RETRIES
                                    THEN Retry("try")
                                    ELSE Raise(InvalidJSON)
                           ELSE IF response.status # 200
                             THEN Raise(RequestFailed)
                           ELSE /\ settled' = "resolved"
                                /\ frames' = <<>>
                                /\ UNCHANGED <<thrown, delay>>
    /\ UNCHANGED <<now, backend, notifications, pendingChanges>>

\* A rejection that never leaves the frame.
Reject_Stuck == UNCHANGED <<frames, settled, thrown, delay>>

\* The frame on top rejects with the error in flight.
Reject ==
    /\ frames' = SubSeq(frames, 1, Len(frames) - 1)
    /\ settled' = IF Len(frames) = 1 THEN "rejected" ELSE settled
    /\ UNCHANGED <<thrown, delay>>

\* The catch block of one invocation, and the way out of it: an error thrown
\* in the try block, the awaited apiCall's rejection included, is caught; one
\* thrown in the catch block rejects the invocation.
Catch ==
    /\ frames # <<>>
    /\ thrown # NoError
    /\ IF Top.at = "try"
         THEN IF (thrown.name = "TypeError" \/ includesFetch(thrown.message))
                 /\ Top.retryCount < MAX_RETRIES
                THEN Retry("catch") /\ UNCHANGED notifications
                ELSE /\ notifications' =
                          IF Top.retryCount >= MAX_RETRIES \/ thrown # SessionExpired
                            THEN notifications \cup {thrown.message}
                            ELSE notifications
                     /\ Reject
         ELSE Reject /\ UNCHANGED notifications
    /\ UNCHANGED <<now, backend, localStorage, fetches, loginShown, pendingChanges>>

\* The admin page with a session stored, or with none, and the server at rest.
InitApiCall ==
    /\ Init
    /\ env.GITHUB_TOKEN /\ env.ADMIN_PASSWORD = Secret

\* The login form's submit handler, the server having answered with a token.
StoreSession ==
    /\ settled = "none"
    /\ STORAGE_KEY \notin DOMAIN localStorage
    /\ localStorage' = Spread(localStorage, [admin_token |-> "jwt", admin_user |-> "asha"])
    /\ loginShown' = FALSE
    /\ UNCHANGED <<now, backend, frames, thrown, settled, fetches, delay, notifications,
                   pendingChanges>>

NextApiCall ==
    \/ StoreSession
    \/ ApiCall
    \/ Attempt
    \/ Catch

SpecApiCall == InitApiCall /\ [][NextApiCall]_vars

\* Every fetch is answered or fails and every backoff timer fires: a frame at
\* its start runs its try block, an error in flight is caught.
SpecApiCallFair ==
    InitApiCall /\ [][NextApiCall]_vars /\ WF_vars(Attempt) /\ WF_vars(Catch)

\* ------------------------------------- the admin page: the pending changes
\* The queue entries a behaviour of the page holds at once.
MaxPending == 2

\* restoreFromLocalStorage: hoursSince < 24, an hour being 1000 * 60 * 60 ms.
RestoreHours == 24
MsPerHour == 3600000

\* The clock of the page: the load, and the last instant within the restore
\* window of a save made then and the first one past it.
PageInstants == {0, RestoreHours * MsPerHour - 1, RestoreHours * MsPerHour}

Kinds == {"products", "gallery", "hero"}

\* 'temp_' + Date.now(), and id.startsWith('temp_').
TempId(t) == "temp_" \o ToString(t)
startsWithTemp_Never(id) == FALSE
startsWithTemp(id) == \E t \in PageInstants : id = TempId(t)

\* originalData as loadData filled it: the ids of the stored items, the accounts.
OriginalIds(kind) ==
    CASE kind = "products" -> {"p1", "p2"}
      [] kind = "gallery" -> {"g1"}
      [] kind = "hero" -> {}
OriginalUsers == {[username |-> u.username, isDefault |-> "isDefault" \in DOMAIN u] :
                    u \in {StoredUsers[i] : i \in 1..Len(StoredUsers)}}

\* What the forms hold at submit: the fields of the item without its id.
ItemForms(kind) ==
    CASE kind = "products" -> {[name |-> "saree", price |-> pr] : pr \in {"100", "120"}}
      [] kind = "gallery" -> {[image |-> "loom.jpg", alt |-> "loom"]}
      [] kind = "hero" -> {[image |-> "hero.jpg"]}

Ids(items) == {items[i].id : i \in 1..Len(items)}
Names(list) == {toLowerCase(list[i].username) : i \in 1..Len(list)}
Lowered(list) == {toLowerCase(list[i]) : i \in 1..Len(list)}

\* getDisplayProducts, getDisplayGallery, getDisplayHeroes: the ids on display.
DisplayIds(changes, kind) ==
    (OriginalIds(kind) \ {changes[kind].delete[i] : i \in 1..Len(changes[kind].delete)})
        \cup Ids(changes[kind].create)

\* getDisplayUsers: the accounts on display.
DisplayUsers(changes) ==
    {u \in OriginalUsers : toLowerCase(u.username) \notin Lowered(changes.users.delete)}
        \cup {[username |-> changes.users.create[i].username, isDefault |-> FALSE] :
                i \in 1..Len(changes.users.create)}

\* updatePendingCount: the count.
PendingCount(changes) ==
    Len(changes.products.create) + Len(changes.products.update) + Len(changes.products.delete)
    + Len(changes.gallery.create) + Len(changes.gallery.update) + Len(changes.gallery.delete)
    + Len(changes.hero.create) + Len(changes.hero.update) + Len(changes.hero.delete)
    + Len(changes.users.create) + Len(changes.users.update) + Len(changes.users.delete)
    + (IF changes.content.update # Absent THEN 1 ELSE 0)

\* JSON.stringify and JSON.parse of the change-set; toISOString and new Date
\* of the instant, which keep the millisecond.
stringify(value) == [json |-> value]
parse(text) == text.json
toISOString(t) == [iso |-> t]
parseDate(timestamp) == timestamp.iso

clearLocalStorage(storage) ==
    removeItem(removeItem(storage, "admin_pending_changes"), "admin_pending_timestamp")

saveToLocalStorage(storage, changes, t) ==
    Spread(storage, [admin_pending_changes |-> stringify(changes),
                     admin_pending_timestamp |-> toISOString(t)])

\* updatePendingCount: what it leaves in localStorage.
updatePendingCount(storage, changes, t) ==
    IF PendingCount(changes) > 0
    THEN saveToLocalStorage(storage, changes, t)
    ELSE clearLocalStorage(storage)

\* The submit handler of the product, gallery and hero forms.
submitItem(changes, kind, itemId, data, t) ==
    IF itemId # ""
    THEN LET create == SelectSeq(changes[kind].create, LAMBDA p : p.id # itemId)
             update == changes[kind].update
             existingUpdateIndex == FindIndexById(update, itemId)
             patch == Spread(data, [id |-> itemId])
         IN  [changes EXCEPT ![kind].create = create,
                             ![kind].update =
                                 IF existingUpdateIndex # 0
                                 THEN [update EXCEPT ![existingUpdateIndex] = patch]
                                 ELSE Append(update, patch)]
    ELSE [changes EXCEPT ![kind].create = Append(@, Spread(data, [id |-> TempId(t)]))]

\* deleteProduct, deleteGalleryItem, deleteHeroImage.
deleteItem(changes, kind, itemId) ==
    LET q == changes[kind]
    IN  [changes EXCEPT
           ![kind].create = SelectSeq(q.create, LAMBDA p : p.id # itemId),
           ![kind].update = SelectSeq(q.update, LAMBDA p : p.id # itemId),
           ![kind].delete =
               IF itemId \notin {q.delete[i] : i \in 1..Len(q.delete)} /\ ~startsWithTemp(itemId)
               THEN Append(q.delete, itemId)
               ELSE q.delete]

\* The submit handler of the user form, past its validation.
submitUser(changes, isEdit, username, password, email, role) ==
    IF isEdit
    THEN LET create == SelectSeq(changes.users.create,
                                 LAMBDA u : toLowerCase(u.username) # toLowerCase(username))
             update == changes.users.update
             updateData == Spread([username |-> username, role |-> role, email |-> email],
                                  IF password # "" THEN [password |-> password] ELSE Absent)
             existingUpdateIndex == FindIndexByUsername(update, toLowerCase(username))
         IN  [changes EXCEPT !.users.create = create,
                             !.users.update =
                                 IF existingUpdateIndex # 0
                                 THEN [update EXCEPT ![existingUpdateIndex] = updateData]
                                 ELSE Append(update, updateData)]
    ELSE IF \E u \in DisplayUsers(changes) : toLowerCase(u.username) = toLowerCase(username)
    THEN changes
    ELSE [changes EXCEPT !.users.create =
            Append(@, [username |-> username, password |-> password,
                       email |-> IF email # "" THEN email ELSE username \o "@shreeadvaya.com",
                       role |-> role])]

\* admin.js deleteUser: the account of the session and the default account stay.
deleteUserEntry(changes, storage, username) ==
    LET lower == toLowerCase(username)
        wasInCreate == lower \in Names(changes.users.create)
    IN  IF "admin_user" \in DOMAIN storage /\ toLowerCase(storage.admin_user) = lower
        THEN changes
        ELSE IF \E u \in DisplayUsers(changes) : toLowerCase(u.username) = lower /\ u.isDefault
        THEN changes
        ELSE [changes EXCEPT
                !.users.create = SelectSeq(@, LAMBDA u : toLowerCase(u.username) # lower),
                !.users.update = SelectSeq(@, LAMBDA u : toLowerCase(u.username) # lower),
                !.users.delete = IF ~wasInCreate /\ lower \notin Lowered(@)
                                 THEN Append(@, username) ELSE @]

\* const { id, ...itemData } = item.
WithoutId(item) == [k \in (DOMAIN item) \ {"id"} |-> item[k]]
MapSeq(items, Op(_)) == [i \in 1..Len(items) |-> Op(items[i])]

\* saveAllChanges: the batch payload.
batchData(changes) ==
    LET part(kind) ==
            IF changes[kind] = EmptyQueues THEN Absent
            ELSE [k \in {kind} |->
                    [create |-> MapSeq(changes[kind].create, WithoutId),
                     update |-> changes[kind].update,
                     delete |-> SelectSeq(changes[kind].delete,
                                          LAMBDA id : ~startsWithTemp(id))]]
        content == IF changes.content.update # Absent
                   THEN [content |-> [update |-> changes.content.update]] ELSE Absent
        accounts == IF changes.users = EmptyQueues THEN Absent
                    ELSE [users |-> changes.users]
    IN  Spread(Spread(Spread(Spread(part("products"), part("gallery")), part("hero")),
                      content), accounts)

\* A restore that takes a save of exactly 24 hours for a fresh one.
restoreFromLocalStorage_Inclusive(storage, changes, t) ==
    IF {"admin_pending_changes", "admin_pending_timestamp"} \subseteq DOMAIN storage
    THEN IF t - parseDate(storage.admin_pending_timestamp) <= RestoreHours * MsPerHour
         THEN LET restored == Spread(changes, parse(storage.admin_pending_changes))
              IN  [changes |-> restored, storage |-> updatePendingCount(storage, restored, t)]
         ELSE [changes |-> changes, storage |-> clearLocalStorage(storage)]
    ELSE [changes |-> changes, storage |-> storage]

\* originalData as loadData filled it: the stored items of the collection.
OriginalItems(kind) ==
    IF PathOf(kind) \in DOMAIN InitTree THEN InitTree[PathOf(kind)] ELSE <<>>

\* getDisplayProducts, getDisplayGallery, getDisplayHeroes: the list on display.
getDisplayItems(changes, kind) ==
    LET q == changes[kind]
        overlay(item) ==
            LET index == FindIndexById(q.update, item.id)
            IN  IF index # 0 THEN Spread(item, q.update[index]) ELSE item
        shown == MapSeq(OriginalItems(kind), overlay) \o q.create
    IN  SelectSeq(shown, LAMBDA p : p.id \notin Range(q.delete))

\* What handleBatch writes for the collection when saveAllChanges sends the
\* change-set at time t and the stored file is the one the page loaded.
persistedItems(changes, kind, t) ==
    LET cs == batchData(changes)[kind]
        ids == CHOOSE ids \in GeneratedIds(kind, Len(cs.create), t) : TRUE
    IN  ApplyCreates(ApplyUpdates(OriginalItems(kind), cs.update, t), cs.create, ids, t)

\* restoreFromLocalStorage: the change-set and the storage it leaves.
restoreFromLocalStorage(storage, changes, t) ==
    IF {"admin_pending_changes", "admin_pending_timestamp"} \subseteq DOMAIN storage
    THEN IF t - parseDate(storage.admin_pending_timestamp) < RestoreHours * MsPerHour
         THEN LET restored == Spread(changes, parse(storage.admin_pending_changes))
              IN  [changes |-> restored, storage |-> updatePendingCount(storage, restored, t)]
         ELSE [changes |-> changes, storage |-> clearLocalStorage(storage)]
    ELSE [changes |-> changes, storage |-> storage]

\* The dashboard is in use: a session is stored and the login screen is away.
Dashboard == STORAGE_KEY \in DOMAIN localStorage /\ ~loginShown

\* The end of every handler that queues: the queue, then updatePendingCount.
Queue(changes) ==
    /\ PendingCount(changes) <= MaxPending
    /\ pendingChanges' = changes
    /\ localStorage' = updatePendingCount(localStorage, changes, now)
    /\ UNCHANGED <<now, backend, frames, thrown, settled, fetches, delay, loginShown,
                   notifications>>

SubmitItem ==
    /\ Dashboard
    /\ \E kind \in Kinds :
         \E itemId \in {""} \cup DisplayIds(pendingChanges, kind), data \in ItemForms(kind) :
            Queue(submitItem(pendingChanges, kind, itemId, data, now))

DeleteItem ==
    /\ Dashboard
    /\ \E kind \in Kinds :
         \E itemId \in DisplayIds(pendingChanges, kind) :
            Queue(deleteItem(pendingChanges, kind, itemId))

SubmitContent ==
    /\ Dashboard
    /\ \E contentData \in {[about |-> "weavers of Kanchi"]} :
         Queue([pendingChanges EXCEPT !.content.update = contentData])

SubmitUser ==
    /\ Dashboard
    /\ \/ \E u \in DisplayUsers(pendingChanges), password \in {"", "secret1"} :
            Queue(submitUser(pendingChanges, TRUE, u.username, password,
                             u.username \o "@shreeadvaya.com", "admin"))
       \/ \E username \in {"carol", "Bob"} :
            Queue(submitUser(pendingChanges, FALSE, username, "secret1", "", "editor"))

DeleteUserEntry ==
    /\ Dashboard
    /\ \E u \in DisplayUsers(pendingChanges) :
         Queue(deleteUserEntry(pendingChanges, localStorage, u.username))

\* saveAllChanges: the batch goes out; saved, the queues are emptied; failed,
\* they stay, and a 401 has apiCall drop the session and show the login screen.
SaveAllChanges ==
    /\ Dashboard
    /\ PendingCount(pendingChanges) > 0
    /\ \E end \in {"saved", "failed", "expired"} :
         /\ pendingChanges' = IF end = "saved" THEN NoChanges ELSE pendingChanges
         /\ localStorage' =
               IF end = "saved" THEN updatePendingCount(localStorage, NoChanges, now)
               ELSE IF end = "expired"
                 THEN removeItem(removeItem(localStorage, STORAGE_KEY), "admin_user")
               ELSE localStorage
         /\ loginShown' = (end = "expired")
    /\ UNCHANGED <<now, backend, frames, thrown, settled, fetches, delay, notifications>>

DiscardAllChanges ==
    /\ Dashboard
    /\ PendingCount(pendingChanges) > 0
    /\ pendingChanges' = NoChanges
    /\ localStorage' = updatePendingCount(clearLocalStorage(localStorage), NoChanges, now)
    /\ UNCHANGED <<now, backend, frames, thrown, settled, fetches, delay, loginShown,
                   notifications>>

\* The page is loaded again: checkAuth, then the dashboard with the changes
\* restoreFromLocalStorage brings back, or the login screen.
Reload ==
    /\ \E verified \in BOOLEAN :
         IF STORAGE_KEY \in DOMAIN localStorage /\ verified
         THEN LET r == restoreFromLocalStorage(localStorage, NoChanges, now)
              IN  /\ pendingChanges' = r.changes
                  /\ localStorage' = r.storage
                  /\ loginShown' = FALSE
         ELSE /\ pendingChanges' = NoChanges
              /\ localStorage' = removeItem(removeItem(localStorage, STORAGE_KEY), "admin_user")
              /\ loginShown' = TRUE
    /\ UNCHANGED <<now, backend, frames, thrown, settled, fetches, delay, notifications>>

\* Time passes.
Elapse ==
    /\ \E t \in PageInstants : t > now /\ now' = t
    /\ UNCHANGED <<backend, browser>>

NextChanges ==
    \/ StoreSession
    \/ SubmitItem
    \/ DeleteItem
    \/ SubmitContent
    \/ SubmitUser
    \/ DeleteUserEntry
    \/ SaveAllChanges
    \/ DiscardAllChanges
    \/ Reload
    \/ Elapse

SpecChanges == InitApiCall /\ [][NextChanges]_vars

\* ------------------------------- the admin page: saveAllChanges step by step
\* The queues with every change emptied whatever the request's end.
afterSave_Always(changes, end) == NoChanges

\* What saveAllChanges leaves of the queues once its apiCall has settled: the
\* statements after the await empty them, the catch block touches nothing.
afterSave(changes, end) == IF end = "resolved" THEN NoChanges ELSE changes

\* saveAllChanges up to its await: the payload, then apiCall.
SaveAllChangesCall ==
    /\ Dashboard
    /\ PendingCount(pendingChanges) > 0
    /\ ApiCall

\* saveAllChanges after its await: the queues emptied and updatePendingCount,
\* or the catch block's notification.
SaveAllChangesSettled ==
    /\ settled \in {"resolved", "rejected"}
    /\ pendingChanges' = afterSave(pendingChanges, settled)
    /\ localStorage' = IF settled = "resolved"
                         THEN updatePendingCount(localStorage, NoChanges, now)
                         ELSE localStorage
    /\ notifications' = notifications \cup
                          {IF settled = "resolved"
                             THEN "All changes saved successfully in a single commit!"
                             ELSE "Error saving changes: " \o thrown.message}
    /\ settled' = "none"
    /\ thrown' = NoError
    /\ fetches' = 0
    /\ delay' = 0
    /\ UNCHANGED <<now, backend, frames, loginShown>>

NextSave ==
    \/ StoreSession
    \/ SubmitContent
    \/ SaveAllChangesCall
    \/ Attempt
    \/ Catch
    \/ SaveAllChangesSettled

SpecSave == InitApiCall /\ [][NextSave]_vars

\* ===================================================== claims about the batch
IsBatch == req.endpoint = "batch"
TokenVerifies == verifyToken(req.token, env.ADMIN_PASSWORD, now).valid
WriteCalls == {"createBlob", "createTree", "createCommit", "updateReference", "saveFileToGitHub"}
NoProviderWrite == Range(calls) \cap WriteCalls = {}
CountCalls(name) == Cardinality({i \in 1..Len(calls) : calls[i] = name})
BodyCollections == (DOMAIN req.body) \cap Collections
StoredAt(sha, path) ==
    IF path \in DOMAIN commits[sha].tree THEN commits[sha].tree[path] ELSE <<>>

\* C1: a batch request is accepted only with a verified token of role admin or
\* editor; one whose verified token has role viewer is rejected with 403 before
\* any provider read or write.
C1_ViewerBatchRejected ==
    (IsBatch /\ env.GITHUB_TOKEN) =>
        /\ (pc # "done" \/ resp.status \notin {401, 403})
              => (TokenVerifies /\ req.token.role \in {"admin", "editor"})
        /\ (TokenVerifies /\ req.token.role = "viewer")
              => (pc = "done" /\ resp.status = 403 /\ calls = <<>>)

\* C2: a content PUT without a bearer token, or with an invalid or expired one, is
\* answered 401 and leaves data/content.json as it was (nothing is saved).
C2_ContentPutGuarded ==
    (req.endpoint = "content" /\ req.method = "PUT" /\ env.GITHUB_TOKEN /\ ~TokenVerifies)
        => (resp.status = 401 /\ NoProviderWrite)

\* C3: batch atomicity. Until the tip has been read nothing is written to the
\* reference; afterwards the reference is the tip that was read or the one new
\* commit, whose parent is that tip and whose tree holds the new data of every
\* file of the write set; a batch that ended on a failed blob, tree or commit
\* creation never called updateReference, left the reference alone and reports 500.
C3_BatchAtomic ==
    IsBatch =>
        /\ currentCommit.sha = 0 => "updateReference" \notin Range(calls)
        /\ currentCommit.sha # 0 =>
              \/ tip = currentCommit.sha
              \/ /\ newCommit # 0
                 /\ tip = newCommit
                 /\ commits[tip].parent = currentCommit.sha
                 /\ \A p \in DOMAIN filesToUpdate :
                       /\ p \in DOMAIN commits[tip].tree
                       /\ commits[tip].tree[p] = filesToUpdate[p]
        /\ (pc = "done" /\ calls # <<>>
              /\ calls[Len(calls)] \in {"createBlob", "createTree", "createCommit"})
              => /\ "updateReference" \notin Range(calls)
                 /\ tip = currentCommit.sha
                 /\ resp.status = 500

\* A batch that committed two files or more.
C3_Witness ==
    /\ IsBatch /\ pc = "done" /\ resp.status = 200
    /\ tip = newCommit /\ newCommit # 0
    /\ Cardinality(DOMAIN filesToUpdate) >= 2

\* The messages of the failures of the provider's write path.
ProviderFailures ==
    {"Failed to get current commit reference", "Failed to create blob",
     "Failed to create tree", "Failed to create commit", "Failed to update reference"}

\* What the batch loaded for a path of its write set: the snapshot of a
\* collection, the stored document for the content file (which is not loaded).
LoadedFor(p) ==
    IF p \in DOMAIN snap THEN snap[p] ELSE StoredAt(currentCommit.sha, p)

\* C4: a batch that changes a file makes exactly one commit (one createCommit,
\* one updateReference), and the paths it writes are exactly the files whose
\* data differ from the loaded snapshot. (Stated for the batches all of whose
\* loads succeeded.)
C4_WriteSetIsChangedFiles ==
    (IsBatch /\ pc = "done" /\ resp.status = 200 /\ newCommit # 0 /\ loadFailed = {}) =>
        /\ CountCalls("createCommit") = 1
        /\ CountCalls("updateReference") = 1
        /\ \A p \in DOMAIN filesToUpdate : filesToUpdate[p] # LoadedFor(p)

\* The collections of the body whose change-set leaves the snapshot as loaded.
LeavesSnapshot(c) ==
    /\ PathOf(c) \in DOMAIN snap
    /\ Len(req.body[c].create) = 0
    /\ ApplyDeletes(ApplyUpdates(snap[PathOf(c)], req.body[c].update, now),
                    req.body[c].delete) = snap[PathOf(c)]

\* C5: a batch whose change-sets leave every loaded snapshot unchanged performs
\* no provider write and answers success with the nothing-to-commit result.
\* (Stated for the batches without delete entries all of whose loads succeeded
\* and that met no provider failure.)
C5_NoNetChangeNoWrite ==
    (IsBatch /\ pc = "done" /\ BodyCollections # {} /\ loadFailed = {}
        /\ resp.text \notin ProviderFailures
        /\ "content" \notin DOMAIN req.body
        /\ \A c \in BodyCollections :
              Len(req.body[c].delete) = 0 /\ LeavesSnapshot(c))
        => (resp = Reply(200, "No changes to save") /\ NoProviderWrite)

\* C6: a batch with a non-empty delete list completes successfully, and the
\* collection persisted is the loaded one after its updates and creates minus
\* the items whose id is in the delete list, placeholder ids being ignored.
\* (Stated for the batches all of whose loads succeeded and that met no provider
\* failure.)
C6_DeletesApplied ==
    (IsBatch /\ pc = "done" /\ calls # <<>> /\ loadFailed = {}
        /\ resp.text \notin ProviderFailures
        /\ \E c \in BodyCollections : Len(req.body[c].delete) > 0)
        => /\ resp.status = 200
           /\ \A c \in BodyCollections :
                 Len(req.body[c].delete) > 0 =>
                    /\ PathOf(c) \in DOMAIN filesToUpdate
                    /\ StoredAt(tip, PathOf(c)) = filesToUpdate[PathOf(c)]
                    /\ \A d \in Range(req.body[c].delete) :
                          ~StartsWithTemp(d) =>
                             \A i \in 1..Len(StoredAt(tip, PathOf(c))) :
                                StoredAt(tip, PathOf(c))[i].id # d

\* C7: a snapshot load that fails other than by not-found makes the batch an
\* upstream failure (500) and no commit is written.
C7_LoadFailureIs500 ==
    (IsBatch /\ pc = "done" /\ loadFailed # {})
        => (resp.status = 500 /\ newCommit = 0)

UsersFile == StoredAt(tip, USERS)
HasAccount(name) == \E i \in 1..Len(UsersFile) : UsersFile[i].username = name

\* C8: when a batch carrying a users change-set is answered with success (the
\* client then clears its buffer), every queued user create, update and delete is
\* in the persisted data/users.json.
C8_UsersChangeSetApplied ==
    (IsBatch /\ pc = "done" /\ resp.status = 200 /\ "users" \in DOMAIN req.body) =>
        /\ \A u \in Range(req.body.users.create) : HasAccount(u.username)
        /\ \A u \in Range(req.body.users.update) :
              \A i \in 1..Len(UsersFile) :
                 UsersFile[i].username = u.username => UsersFile[i].role = u.role
        /\ \A d \in Range(req.body.users.delete) : ~HasAccount(d)

\* ============================================== claims about the account store
\* The entries of a list that carry isDefault = true.
DefaultFlagged(list) ==
    {i \in 1..Len(list) : "isDefault" \in DOMAIN list[i] /\ list[i].isDefault = TRUE}

\* The account request at hand passed the guard (a verified token of role admin).
AdmittedUsersRequest ==
    /\ req.endpoint = "users"
    /\ pc = "done"
    /\ UsersGuard(req.token, env.ADMIN_PASSWORD, now) = NoResponse

PersistedUsers == IF USERS \in DOMAIN TipTree THEN TipTree[USERS] ELSE <<>>

\* C9: whoever the acting admin is and whatever updates and deletes came before,
\* a delete naming the default account is rejected (400, nothing saved), an
\* update that would give the default account a role other than admin is rejected
\* with 400 (nothing saved), and the persisted account file keeps one default
\* account, named Admin with role admin.
C9_DefaultAccountProtected ==
    /\ (AdmittedUsersRequest /\ req.method = "DELETE"
           /\ toLowerCase(req.body.username) = "admin")
          => (resp.status = 400 /\ "saveFileToGitHub" \notin Range(calls))
    /\ (AdmittedUsersRequest /\ req.method = "PUT"
           /\ toLowerCase(req.body.username) = "admin"
           /\ "role" \in DOMAIN req.body /\ req.body.role # "admin")
          => (resp.status = 400 /\ "saveFileToGitHub" \notin Range(calls))
    /\ USERS \in DOMAIN TipTree =>
          /\ Cardinality(DefaultFlagged(PersistedUsers)) = 1
          /\ \A i \in DefaultFlagged(PersistedUsers) :
                /\ PersistedUsers[i].username = "Admin"
                /\ PersistedUsers[i].role = "admin"

\* The second admin's delete of the default account was rejected after an
\* earlier request had rewritten the account file.
C9_Witness ==
    /\ AdmittedUsersRequest /\ req.method = "DELETE"
    /\ req.token.username = "asha"
    /\ req.body.username = "admin"
    /\ resp = Reply(400, "Cannot delete default admin user")
    /\ Len(commits) >= 2

\* C10: whatever the account file holds and whatever the seed list is, the list
\* loadUsers returns has exactly one account with isDefault = true, and that
\* account has username Admin and role admin.
C10_ExactlyOneDefault ==
    pc = "loaded" =>
        /\ Cardinality(DefaultFlagged(users)) = 1
        /\ \A i \in DefaultFlagged(users) :
              users[i].username = "Admin" /\ users[i].role = "admin"

\* ================================================== claims about a replay
\* An item without its updatedAt stamp.
WithoutStamp(item) == [k \in (DOMAIN item) \ {"updatedAt"} |-> item[k]]

\* C22: replaying a batch payload. When the payload was saved and its replay
\* was saved on top of it, the replay left every item of the first result with
\* the same fields (updatedAt apart) and appended one item with a new id per
\* create entry; and a payload whose delete entries name only ids that are in
\* the collection no more (nothing else queued) is a no-op: it does not fail
\* and the stored collection stays as loaded.
C22_ReplayIsSecondApply ==
    /\ (/\ IsBatch /\ pc = "done" /\ resp.status = 200 /\ loadFailed = {}
        /\ tip = 3 /\ commits[3].parent = 2 /\ "products" \in DOMAIN req.body)
          => LET first == StoredAt(2, PRODUCTS)
                 second == StoredAt(3, PRODUCTS)
             IN /\ Len(second) = Len(first) + Len(req.body.products.create)
                /\ \A i \in 1..Len(first) : WithoutStamp(second[i]) = WithoutStamp(first[i])
                /\ \A i \in (Len(first) + 1)..Len(second) :
                      \A j \in 1..Len(first) : second[i].id # first[j].id
    /\ (/\ IsBatch /\ pc = "done" /\ calls # <<>> /\ loadFailed = {}
        /\ resp.text \notin ProviderFailures /\ "products" \in DOMAIN req.body
        /\ req.body.products.update = <<>> /\ req.body.products.create = <<>>
        /\ req.body.products.delete # <<>>
        /\ \A d \in Range(req.body.products.delete) :
              \A i \in 1..Len(snap[PRODUCTS]) : snap[PRODUCTS][i].id # d)
          => (resp.status = 200 /\ StoredAt(tip, PRODUCTS) = snap[PRODUCTS])

\* ============================================== claims about created items
\* C12: every create entry of a saved batch yields exactly one appended item
\* whose stored id is not the id the client put in the entry and does not begin
\* with temp_, and whose createdAt is set; the item is in the file at the new tip.
C12_CreatedIdsServerGenerated ==
    (IsBatch /\ pc = "done" /\ resp.status = 200 /\ resp.commitSha # 0 /\ loadFailed = {}) =>
        \A c \in BodyCollections :
            LET creates == req.body[c].create
                before == StoredAt(commits[resp.commitSha].parent, PathOf(c))
                after == StoredAt(tip, PathOf(c))
            IN (Len(req.body[c].delete) = 0) =>
                  /\ Len(after) = Len(before) + Len(creates)
                  /\ \A i \in 1..Len(creates) :
                        LET item == after[Len(before) + i]
                        IN /\ "createdAt" \in DOMAIN item
                           /\ ~StartsWithTemp(item.id)
                           /\ "id" \in DOMAIN creates[i] => item.id # creates[i].id

\* C13, for the collection whose ids have no random part and for batches
\* processed at different instants: after any sequence of saved batches, two
\* hero items at the tip that were created at different instants (a few
\* milliseconds apart included) have different ids.
C13_HeroIdsDistinct ==
    LET arr == StoredAt(tip, HERO)
    IN \A i, j \in 1..Len(arr) :
          arr[i].createdAt # arr[j].createdAt => arr[i].id # arr[j].id

\* ===================================================== claims about tokens
\* The user a login response says the token was issued for (the single password
\* login names none: its token is admin's).
IssuedFor == IF "user" \in DOMAIN resp.data THEN resp.data.user
             ELSE [username |-> "admin", role |-> "admin"]
PresentsToken == HoldsToken /\ req'.endpoint \in {"verify", "users", "batch"}

\* C14 as stated, T and the later time taken to the millisecond: a token a login
\* issued at T verifies as valid, with the username and role it was issued for,
\* at every time before T + 3600 s and is rejected as expired at every time
\* after T + 3600 s.
C14_AsStated ==
    [][(PresentsToken /\ req'.token = resp.data.token /\ req'.endpoint = "verify") =>
          /\ now' < now + TokenTTL * MsPerSec
                => resp' = ReplyData(200, "", [valid |-> TRUE, user |-> IssuedFor])
          /\ now' > now + TokenTTL * MsPerSec
                => (resp'.status = 401 /\ resp'.text = "Token expired")]_vars

\* C14 on the clock of whole seconds the token carries (iat = floor(T / 1000),
\* exp = iat + 3600): a token a login issued at T verifies as valid, with the
\* username and role it was issued for, while floor(now / 1000) < exp, and
\* every caller lets it through; from floor(now / 1000) = exp on it is rejected
\* with the reason "Token expired", a malformed or wrongly signed one with the
\* reason "Invalid token"; every caller answers both kinds with 401.
C14_TokenLifetime ==
    [][PresentsToken =>
          LET exp == NowSec(now) + TokenTTL
              held == req'.token = resp.data.token
              verify == req'.endpoint = "verify"
          IN /\ (held /\ NowSec(now') < exp) =>
                   /\ resp'.status # 401
                   /\ verify => resp' = ReplyData(200, "", [valid |-> TRUE, user |-> IssuedFor])
             /\ (held /\ NowSec(now') >= exp) =>
                   /\ resp'.status = 401
                   /\ verify => resp'.text = "Token expired"
             /\ ~held =>
                   /\ resp'.status = 401
                   /\ verify => resp'.text = "Invalid token"]_vars

\* The verify endpoint answered an expired token, issued an hour before.
C14_Witness ==
    /\ pc = "done" /\ req.endpoint = "verify"
    /\ req.token.sig = env.ADMIN_PASSWORD /\ NowSec(now) >= req.token.exp
    /\ resp.status = 401 /\ resp.text = "Token expired"

\* ================================================= claims about the accounts
\* C11: every account request (list, update, delete, register) whose token
\* verifies with role editor or viewer is answered 403 and leaves the persisted
\* account list as it was; one whose token is missing or does not verify is
\* answered 401 (and persists nothing either).
C11_AccountRequestsGuarded ==
    [][(pc' = "done" /\ req'.endpoint \in {"users", "register"}) =>
          LET v == verifyToken(req'.token, env.ADMIN_PASSWORD, now)
          IN /\ ~v.valid => (resp'.status = 401 /\ commits' = commits /\ tip' = tip)
             /\ (v.valid /\ v.user.role \in {"editor", "viewer"})
                   => (resp'.status = 403 /\ commits' = commits /\ tip' = tip)]_vars

\* A registration by a verified viewer was answered 403.
C11_Witness ==
    /\ pc = "done" /\ req.endpoint = "register"
    /\ TokenVerifies /\ req.token.role = "viewer"
    /\ resp.status = 403

\* ==================================================== claims about the login
\* A login with a username and a password has been answered; users is the list
\* authenticate loaded.
LoginDone ==
    pc = "done" /\ req.endpoint = "login" /\ req.body.username # "" /\ req.body.password # ""
\* The password is the one of the loaded account u.
IsPasswordOf(u, password) ==
    /\ "encryptedPassword" \in DOMAIN u
    /\ IF "isPlainText" \in DOMAIN u /\ u.isPlainText
       THEN u.encryptedPassword = StoredText(password)
       ELSE u.encryptedPassword = encryptPassword(password, env.ADMIN_PASSWORD)
LoggedInAs(u) ==
    resp.status = 200 /\ resp.data.user = [username |-> u.username, role |-> u.role]

\* C15: authenticate finds the account by its username ignoring letter case: a
\* login whose username equals a loaded account's username ignoring case, with
\* that account's password, is answered with that account's username and role.
C15_CaseInsensitiveLookup ==
    (LoginDone /\ env.ADMIN_PASSWORD # NoSecret) =>
        \A i \in 1..Len(users) :
            (/\ toLowerCase(users[i].username) = toLowerCase(req.body.username)
             /\ IsPasswordOf(users[i], req.body.password))
                => LoggedInAs(users[i])

\* C16: a login naming no account and a login with a wrong password get the same
\* response, 401 with the error 'Invalid credentials' and nothing else, so the
\* response does not tell whether the username exists.
C16_NoExistenceOracle ==
    LoginDone =>
        LET known == {i \in 1..Len(users) : users[i].username = req.body.username}
            wrong == \A i \in known : ~IsPasswordOf(users[i], req.body.password)
        IN (known = {} \/ wrong) => resp = Reply(401, "Invalid credentials")

\* A stored account was named with a wrong password, and answered 401.
C16_Witness ==
    /\ LoginDone /\ req.body.username = "bob" /\ req.body.password = "wrong"
    /\ FindIndexExact(users, "bob") # 0
    /\ resp = Reply(401, "Invalid credentials")

Registered == pc' = "done" /\ req'.endpoint = "register"
\* The token of the answered request verifies with role admin.
AdminToken(token) ==
    LET v == verifyToken(token, env.ADMIN_PASSWORD, now)
    IN v.valid /\ v.user.role = "admin"

\* C18: a registration without a verified admin token creates an account only
\* when no account was ever persisted, and that account has role admin; while
\* accounts are persisted, a registration lacking such a token is refused (401
\* or 403) and persists nothing. (register.js takes its first-account branch
\* when loadUsers returns an empty list; loadUsers always returns the default
\* account, so the code never creates an account without an admin token.)
C18_RegisterNeedsAdmin ==
    [][(Registered /\ ~AdminToken(req'.token)) =>
          /\ (commits' # commits \/ tip' # tip) =>
                /\ UsersFile = <<>>
                /\ UsersFile'[Len(UsersFile')].role = "admin"
          /\ UsersFile # <<>> =>
                /\ resp'.status \in {401, 403}
                /\ commits' = commits /\ tip' = tip]_vars

\* A well-formed registration of a new name, sent with a verified editor token
\* while accounts are persisted, was refused.
C18_Witness ==
    /\ pc = "done" /\ req.endpoint = "register"
    /\ TokenVerifies /\ req.token.role = "editor"
    /\ req.body.username = "carol" /\ ValidateRegister(req.body) = NoResponse
    /\ UsersFile # <<>> /\ ~HasAccount("carol")
    /\ resp.status = 403

NamesDistinct(list) ==
    \A i, j \in 1..Len(list) :
        i # j => toLowerCase(list[i].username) # toLowerCase(list[j].username)

\* C19: the persisted account list never holds two usernames that are equal
\* ignoring letter case, and an admitted, well-formed registration whose
\* username equals a persisted one ignoring case, or the default Admin's, is
\* answered 409 (500 allowed here for a failing provider, never 201) and leaves
\* the persisted list as it was.
C19_UsernamesUnique ==
    /\ []NamesDistinct(UsersFile)
    /\ [][(/\ Registered /\ AdminToken(req'.token) /\ env.GITHUB_TOKEN
            /\ ValidateRegister(req'.body) = NoResponse
            /\ \/ toLowerCase(req'.body.username) = "admin"
               \/ \E i \in 1..Len(UsersFile) :
                     toLowerCase(UsersFile[i].username) = toLowerCase(req'.body.username))
              => (resp'.status \in {409, 500} /\ commits' = commits /\ tip' = tip)]_vars

\* ================================================ claims about responses
\* The records of a response body that describe accounts.
ResponseAccounts ==
    (IF "user" \in DOMAIN resp.data THEN {resp.data.user} ELSE {})
        \cup (IF "users" \in DOMAIN resp.data THEN Range(resp.data.users) ELSE {})
\* The strings of a response body: its message and the text fields of its accounts.
ResponseStrings ==
    {resp.text} \cup UNION {{a[k] : k \in DOMAIN a \cap {"username", "role", "email"}} :
                              a \in ResponseAccounts}
\* The passwords in play: the one the request carries and those of the
\* persisted credentials.
PasswordsInPlay ==
    (IF req.endpoint \in {"users", "register", "login"} /\ "password" \in DOMAIN req.body
     THEN {req.body.password} \ {""} ELSE {})
        \cup {UsersFile[i].encryptedPassword.text : i \in 1..Len(UsersFile)}
        \cup (IF env.ADMIN_PASSWORD = NoSecret THEN {} ELSE {env.ADMIN_PASSWORD})

\* C20: no response of the list, register, update, delete, login and verify
\* requests carries a stored credential (no encryptedPassword or password field
\* in the body or in an account of it) or a password as plain text.
C20_NoCredentialInResponse ==
    (pc = "done" /\ req.endpoint \in {"users", "register", "login", "verify"}) =>
        /\ \A a \in ResponseAccounts \cup {resp.data} :
              DOMAIN a \cap {"encryptedPassword", "password"} = {}
        /\ ResponseStrings \cap PasswordsInPlay = {}

\* The account list was returned to an admin.
C20_Witness ==
    /\ pc = "done" /\ req.endpoint = "users" /\ req.method = "GET"
    /\ resp.status = 200 /\ Len(resp.data.users) > 1
    /\ \A i \in 1..Len(users) : "encryptedPassword" \in DOMAIN users[i]

C23_RequestCeiling ==
    /\ fetches <= MAX_RETRIES + 1
    /\ delay \in {0} \cup {RETRY_DELAY * pow(2, n) : n \in 0..(MAX_RETRIES - 1)}

\* C24: once an attempt of apiCall received a 401, the call issues no further
\* HTTP request, the stored token and user record are gone from local storage,
\* the login screen is shown, and every further step takes the call one frame
\* nearer to its rejection, which is how it ends.
C24_UnauthorizedEndsCall ==
    [][/\ thrown' = SessionExpired
            => /\ STORAGE_KEY \notin DOMAIN localStorage'
               /\ "admin_user" \notin DOMAIN localStorage'
               /\ loginShown'
               /\ settled' = (IF frames' = <<>> THEN "rejected" ELSE "pending")
       /\ thrown = SessionExpired
            => /\ thrown' = SessionExpired
               /\ fetches' = fetches
               /\ Len(frames') = Len(frames) - 1]_vars

C24_Witness ==
    /\ settled = "rejected"
    /\ thrown = SessionExpired
    /\ fetches = 3
    /\ delay = 2000
    /\ loginShown
    /\ localStorage = Absent

\* An id that carries the placeholder prefix.
IsPlaceholder(id) == \E t \in PageInstants : id = "temp_" \o ToString(t)

C26_QueuedPatchOverlaid ==
    [][/\ \A u \in Range(pendingChanges.users.update), v \in Range(pendingChanges'.users.update) :
            toLowerCase(u.username) = toLowerCase(v.username) => DOMAIN u \subseteq DOMAIN v
       /\ \A kind \in Kinds :
            \A u \in Range(pendingChanges[kind].update), v \in Range(pendingChanges'[kind].update) :
               u.id = v.id => DOMAIN u \subseteq DOMAIN v]_vars

RequestsIssued == {i \in 1..Len(calls) : calls[i] # "loadUsers" \/ env.GITHUB_TOKEN}

\* C28: a request to a mutating endpoint (the batch, the registration, the
\* update and the deletion of an account) that fails the guard, its token
\* missing, invalid or expired or its role insufficient, is answered before any
\* request to the provider is issued.
C28_GuardBeforeProvider ==
    (/\ pc = "done"
     /\ \/ IsBatch
        \/ req.endpoint = "register"
        \/ req.endpoint = "users" /\ req.method \in {"PUT", "DELETE"}
     /\ ~AdminToken(req.token))
       => RequestsIssued = {}

\* C29: with no ADMIN_PASSWORD configured, a request that needs a token issued
\* or verified or a credential encrypted or decrypted, that is a request that
\* presents a token and a login with a name and a password, is answered 500 for
\* the configuration error, not 401 and not with success; no account, the
\* default one included, is authenticated.
C29_NoSecretIsConfigurationError ==
    (pc = "done" /\ env.ADMIN_PASSWORD = NoSecret) =>
        /\ (req.endpoint \in {"verify", "users", "register", "batch"}
            /\ req.token.form # "absent") => resp.status = 500
        /\ LoginDone => resp.status = 500

\* C30: when the branch tip moved between a batch's read of it and its
\* reference update, because another batch committed, the provider rejects the
\* update, the handler answers 500 after that one attempt, and the other
\* batch's commit is still the tip.
C30_StaleUpdateRejected ==
    [][(pc = "updateReference" /\ pc' = "done" /\ tip # currentCommit.sha)
         => /\ resp'.status = 500
            /\ resp'.text = "Failed to update reference"
            /\ calls' = calls \o <<"updateReference", RefRequest("PATCH", currentCommit.branch)>>
            /\ CountCalls("updateReference") = 0
            /\ tip' = tip
            /\ commits' = commits]_vars

C30_Witness ==
    /\ IsBatch /\ pc = "done"
    /\ resp.status = 500 /\ resp.text = "Failed to update reference"
    /\ newCommit # 0 /\ commits[newCommit].parent = currentCommit.sha
    /\ tip # newCommit /\ tip # currentCommit.sha
    /\ commits[tip].parent = currentCommit.sha
    /\ Len(commits) = 3

\* C31: when a batch and a concurrent batch that changed the same collection
\* file both succeeded, the file at the final tip has the edits of both: the
\* item the concurrent batch added to a collection is in that collection at the
\* commit of the batch that was built on it, every load of that batch having
\* succeeded.
C31_NoLostEdit ==
    (/\ IsBatch /\ pc = "done" /\ resp.status = 200
     /\ loadFailed = {}
     /\ newCommit = tip /\ commits[tip].parent > 1)
       => \A path \in {PRODUCTS, GALLERY} :
            Ids(StoredAt(commits[tip].parent, path)) \subseteq Ids(StoredAt(tip, path))

\* An item without its id and its timestamps.
Fields(item) == [k \in (DOMAIN item) \ {"id", "createdAt", "updatedAt"} |-> item[k]]

\* C32: when saveAllChanges succeeds (the batch carries no deletion, which the
\* server cannot apply), the collection the server writes equals the list on
\* display, ids and timestamps left aside, and an item that was created in the
\* session and edited before the save is written with its edited fields.
C32_PersistedIsDisplayed ==
    \A kind \in Kinds :
        (kind \in DOMAIN batchData(pendingChanges)
         /\ batchData(pendingChanges)[kind].delete = <<>>)
          => LET persisted == MapSeq(persistedItems(pendingChanges, kind, now), Fields)
             IN  /\ persisted = MapSeq(getDisplayItems(pendingChanges, kind), Fields)
                 /\ \A patch \in Range(pendingChanges[kind].update) :
                       IsPlaceholder(patch.id) => Fields(patch) \in Range(persisted)

\* C33: the commit a batch wrote has the tip that was read as its sole parent,
\* and its tree is the base tree with the files of the write set put in: every
\* other path of the base tree is there with its content unchanged, each file of
\* the write set is there with the content written, and no other path is.
C33_CommitFrame ==
    (IsBatch /\ newCommit # 0 /\ pc \in {"updateReference", "done"})
      => LET base == commits[currentCommit.treeSha].tree
             tree == commits[newCommit].tree
         IN  /\ commits[newCommit].parent = currentCommit.sha
             /\ DOMAIN tree = (DOMAIN base) \cup (DOMAIN filesToUpdate)
             /\ \A path \in (DOMAIN base) \ (DOMAIN filesToUpdate) : tree[path] = base[path]
             /\ \A path \in DOMAIN filesToUpdate : tree[path] = filesToUpdate[path]

C33_Witness ==
    /\ IsBatch /\ pc = "done" /\ resp.status = 200
    /\ newCommit = tip /\ commits[tip].parent = 1
    /\ DOMAIN filesToUpdate = {PRODUCTS}
    /\ commits[tip].tree[PRODUCTS] # commits[1].tree[PRODUCTS]
    /\ commits[tip].tree[GALLERY] = commits[1].tree[GALLERY]
    /\ "getBaseTree" \in Range(calls)

\* The backup of the queues that localStorage holds.
Backup(storage) ==
    [k \in (DOMAIN storage) \cap {"admin_pending_changes", "admin_pending_timestamp"} |-> storage[k]]

\* C34: saveAllChanges empties the queues and removes their backup only once its
\* request has resolved; no step of the request changes them, and when the
\* request is rejected (session expired, error response, retries exhausted) the
\* queues and the backup are what they were.
C34_ClearedOnlyOnSuccess ==
    [][/\ (SaveAllChangesCall \/ Attempt \/ Catch)
            => (pendingChanges' = pendingChanges /\ Backup(localStorage') = Backup(localStorage))
       /\ SaveAllChangesSettled
            => IF settled = "resolved"
                 THEN pendingChanges' = NoChanges /\ Backup(localStorage') = Absent
                 ELSE pendingChanges' = pendingChanges
                      /\ Backup(localStorage') = Backup(localStorage)]_vars

C34_Witness ==
    /\ settled = "none"
    /\ "Error saving changes: Session expired. Please login again." \in notifications
    /\ "Error saving changes: Failed to fetch" \in notifications
    /\ PendingCount(pendingChanges) > 0
    /\ "admin_pending_changes" \in DOMAIN localStorage
    /\ STORAGE_KEY \notin DOMAIN localStorage

\* The account a token names, as the file at the tip has it (Absent: none).
StoredAccount(token) ==
    LET stored == IF USERS \in DOMAIN TipTree THEN TipTree[USERS] ELSE <<>>
        index == FindIndexByUsername(stored, toLowerCase(token.username))
    IN  IF index = 0 THEN Absent ELSE stored[index]

\* C35: a token the service signed is accepted by the account endpoint, with
\* the role it was issued with, until its hour is over, whatever became of the
\* account since: the request is answered 401 exactly when the token has
\* expired, and otherwise 403 exactly when the token's own role is not admin.
C35_TokenOutlivesAccount ==
    (/\ pc = "done" /\ req.endpoint = "users"
     /\ env.ADMIN_PASSWORD = Secret
     /\ req.token.form = "jwt" /\ req.token.sig = Secret)
       => LET live == NowSec(now) < req.token.exp
          IN  /\ (resp.status = 401) <=> ~live
              /\ live => ((resp.status = 403) <=> (req.token.role # "admin"))

C35_Witness ==
    /\ pc = "done" /\ req.endpoint = "users" /\ req.method = "PUT"
    /\ resp.status = 200
    /\ req.token.username = "asha" /\ req.token.role = "admin"
    /\ tip = 3
    /\ FindIndexByUsername(commits[2].tree[USERS], "asha") = 0
    /\ StoredAccount(req.token) = Absent
    /\ commits[3].tree # commits[2].tree

\* C36: getCurrentCommit goes through the default branch, main and master in
\* that order, gives up on the reference only once main and master were both
\* requested, and the batch moves the reference of the branch it read.
C36_BranchResolution ==
    (IsBatch /\ pc = "done" /\ "getCurrentCommit" \in Range(calls))
      => /\ resp.text = "Failed to get current commit reference"
              => {RefRequest("GET", "main"), RefRequest("GET", "master")} \subseteq Range(calls)
         /\ resp.status = 200
              => /\ RefRequest("GET", currentCommit.branch) \in Range(calls)
                 /\ calls[Len(calls)] = RefRequest("PATCH", currentCommit.branch)

Undecryptable(stored, key) ==
    stored.form # "aes" \/ stored.key # key \/ ~stored.tag

\* C38: a login that names a stored account whose credential does not decrypt
\* is answered with the generic 401 'Invalid credentials', whatever password
\* was sent: no session, no other status, nothing about the decryption.
C38_UndecryptableIsInvalidCredentials ==
    (/\ pc = "done" /\ req.endpoint = "login"
     /\ req.body.username # "" /\ req.body.password # ""
     /\ FindIndexExact(users, req.body.username) # 0
     /\ LET user == users[FindIndexExact(users, req.body.username)]
        IN  /\ "isPlainText" \notin DOMAIN user
            /\ Undecryptable(user.encryptedPassword, env.ADMIN_PASSWORD))
       => resp = Reply(401, "Invalid credentials")

C38_Witness ==
    /\ pc = "done" /\ req.endpoint = "login"
    /\ env.ADMIN_PASSWORD = Secret
    /\ req.body.username = "erin" /\ req.body.password = "dora-pw"
    /\ FindIndexExact(users, "erin") # 0
    /\ FindIndexExact(users, "dora") # 0
    /\ FindIndexExact(users, "fay") # 0
    /\ resp.status = 401

\* C39: under any sequence of responses and network errors, with every fetch
\* and every backoff timer completing, a call of apiCall that was made is
\* resolved or rejected in the end.
C39_ApiCallSettles ==
    (settled = "pending") ~> (settled \in {"resolved", "rejected"})

C39_Witness ==
    /\ settled = "rejected"
    /\ frames = <<>>
    /\ fetches > MAX_RETRIES + 1
    /\ thrown = FailedToFetch

====
